---- MODULE Spec2Model ----
(***************************************************************************)
(* A model of the execution subsystem of zoekt-mcp:                        *)
(*   - the static safety validator  (src/src/execution/safety.py)          *)
(*   - the workflow CLI parser      (src/src/execution/runner.py)          *)
(*   - the subprocess runner        (src/src/execution/runner.py)          *)
(* Each subsystem has its own specification (SpecSafety, SpecCli, Spec);   *)
(* a specification parks the variables of the other subsystems.  The       *)
(* functions that keep no state are called once per behaviour in           *)
(* specifications of their own.                                            *)
(***************************************************************************)
EXTENDS Integers, Sequences, FiniteSets, TLC

VARIABLES
    \* safety validator
    code,          \* the submitted source: a syntax error or a parsed tree
    rejections,    \* the list returned by validate_custom_workflow_code
    vpc,           \* "input" | "validated"
    evaluations,   \* how many times the validator has run on `code`
    \* CLI parser
    command,       \* the command string, as its shlex tokens (or a lexer error)
    cli,           \* the outcome of parse_workflow_cli_command
    cpc,           \* "input" | "parsed" | "reparsed"
    reparse,       \* a serialisation of the parsed args and the outcome of parsing it
    \* subprocess runner: one invocation
    pc,            \* "idle" | "spawning" | "waiting" | "draining" | "done" | "raised"
    req,           \* the arguments of the entrypoint called
    tempDir,       \* the TemporaryDirectory: "none" | "exists" | "removed"
    child,         \* the subprocess: "none" | "running" | "exited" | "killed"
    returncode,    \* process.returncode once the child has exited
    pipeOut,       \* writes of the child to stdout, not yet read and lost
    pipeErr,       \* writes of the child to stderr, not yet read and lost
    now,           \* seconds since `start`
    result,        \* the ExecutionResult returned
    via,           \* the return statement that produced `result`
    \* a component taken on its own
    call,          \* the arguments of the call, or the inputs of the component
    ret,           \* what the call returned, or the state of the component
    fpc            \* the position of the call: "input", then "returned" and others

safetyVars == <<code, rejections, vpc, evaluations>>
cliVars == <<command, cli, cpc, reparse>>
runnerVars == <<pc, req, tempDir, child, returncode, pipeOut, pipeErr, now, result, via>>
callVars == <<call, ret, fpc>>
vars == <<safetyVars, cliVars, runnerVars, callVars>>

(***************************************************************************)
(* Bounds of the model.                                                    *)
(***************************************************************************)
MaxExtra == 2        \* statements of a program besides its entrypoint part
MaxEvaluations == 2  \* evaluations of the validator on one input
MaxArgTokens == 4    \* tokens of a command after the workflow id
MaxOutChunks == 2    \* writes of the child to stdout
MaxErrChunks == 2    \* writes of the child to stderr
TimeoutDefault == 2  \* timeout_default of the runner under test (seconds)
TimeoutMax == 3      \* timeout_max of the runner under test (seconds)
StdoutMaxBytes == 3  \* stdout_max_bytes of the runner under test
StderrMaxBytes == 1  \* stderr_max_bytes of the runner under test
MaxLines == 3        \* lines of a stdout given to _extract_result_json
MaxStreamChars == 3  \* characters of a stream given to a capping routine
MaxCap == 3          \* the largest cap given to a capping routine

(***************************************************************************)
(* Python syntax trees.  A node is a record                                *)
(*   type   : the ast class name                                           *)
(*   name   : FunctionDef.name, Name.id, Attribute.attr, Constant.value    *)
(*   module : alias.name / ImportFrom.module as its dotted segments        *)
(*            (<<>> is ImportFrom.module = None, a relative import)        *)
(*   ops    : Compare.ops                                                  *)
(*   kids   : ast.iter_child_nodes(node), in field order                   *)
(* A dotted name "a.b" is <<"a", "b">>: no segment holds a dot, so         *)
(* s.startswith(r + ".") is "r is a proper prefix of s" on segments.       *)
(***************************************************************************)
Node(t, n, m, o, k) == [type |-> t, name |-> n, module |-> m, ops |-> o, kids |-> k]

Leaf(t, n) == Node(t, n, <<>>, <<>>, <<>>)

Pass == Leaf("Pass", "")

FunctionDef(n, body) == Node("FunctionDef", n, <<>>, <<>>, body)

AsyncFunctionDef(n, body) == Node("AsyncFunctionDef", n, <<>>, <<>>, body)

ClassDef(n, body) == Node("ClassDef", n, <<>>, <<>>, body)

\* left <ops> comparators
Compare(left, o, comparators) == Node("Compare", "", <<>>, o, <<left>> \o comparators)

\* If.test is the first child, then If.body
If(test, body) == Node("If", "", <<>>, <<>>, <<test>> \o body)

Alias(m) == Node("alias", "", m, <<>>, <<>>)

\* import a.b, c : Import.names
Import(names) == Node("Import", "", <<>>, <<>>, [i \in 1..Len(names) |-> Alias(names[i])])

\* from m import a, b : ImportFrom.module, ImportFrom.names
ImportFrom(m, names) ==
    Node("ImportFrom", "", m, <<>>, [i \in 1..Len(names) |-> Alias(<<names[i]>>)])

\* f(x) as an expression statement; Call.func is the first child of the Call
Call(func) == Node("Call", "", <<>>, <<>>, <<func, Leaf("Name", "x")>>)

Expr(value) == Node("Expr", "", <<>>, <<>>, <<value>>)

Attribute(value, attr) == Node("Attribute", attr, <<>>, <<>>, <<value>>)

Module(body) == Node("Module", "", <<>>, <<>>, body)

\* the outcome of ast.parse: a tree, or SyntaxError(msg, lineno)
SyntaxError == [type |-> "SyntaxError", name |-> "invalid syntax", module |-> <<>>,
                ops |-> <<>>, kids |-> <<>>]

(***************************************************************************)
(* safety.py                                                               *)
(***************************************************************************)
ALLOWED_IMPORTS ==
    { <<"argparse">>, <<"asyncio">>, <<"json">>, <<"sys">>, <<"runtime", "zoekt_tools">> }

BANNED_IMPORT_PREFIXES ==
    { <<"builtins">>, <<"ctypes">>, <<"importlib">>, <<"multiprocessing">>, <<"os">>,
      <<"pathlib">>, <<"shlex">>, <<"shutil">>, <<"socket">>, <<"subprocess">>,
      <<"tempfile">> }

BANNED_CALLS == { "compile", "eval", "exec", "input", "open", "__import__" }

\* s.startswith(r + ".") for dotted names s, r
StartsWithDotted(s, r) == Len(s) > Len(r) /\ SubSeq(s, 1, Len(r)) = r

Rejection(kind, arg) == [kind |-> kind, arg |-> arg]

\* a mutant of check_import: a dotted descendant of an allowed root is not
\* recognised (the second allow-list test is missing)
check_import_exact_only(module_name, rej) ==
    IF module_name = <<>> THEN rej
    ELSE IF \E banned \in BANNED_IMPORT_PREFIXES :
                module_name = banned \/ StartsWithDotted(module_name, banned)
         THEN Append(rej, Rejection("banned_import", module_name))
    ELSE IF module_name \in ALLOWED_IMPORTS THEN rej
    ELSE Append(rej, Rejection("disallowed_import", module_name))

check_import(module_name, rej) ==
    IF module_name = <<>> THEN rej
    ELSE IF \E banned \in BANNED_IMPORT_PREFIXES :
                module_name = banned \/ StartsWithDotted(module_name, banned)
         THEN Append(rej, Rejection("banned_import", module_name))
    ELSE IF module_name \in ALLOWED_IMPORTS THEN rej
    ELSE IF \E allowed \in ALLOWED_IMPORTS : StartsWithDotted(module_name, allowed)
         THEN rej
    ELSE Append(rej, Rejection("disallowed_import", module_name))

is_name_main_guard(test) ==
    /\ test.type = "Compare"
    /\ test.kids[1].type = "Name" /\ test.kids[1].name = "__name__"
    /\ Len(test.ops) = 1 /\ test.ops[1] = "Eq"
    /\ Len(test.kids) - 1 = 1
    /\ test.kids[2].type = "Constant" /\ test.kids[2].name = "__main__"

\* None is modelled as ""
call_name(node) ==
    IF node.kids[1].type = "Name" THEN node.kids[1].name
    ELSE IF node.kids[1].type = "Attribute" THEN node.kids[1].name
    ELSE ""

\* ast.walk: breadth first, from a queue holding the root
RECURSIVE Walk(_)
Walk(todo) ==
    IF todo = <<>> THEN <<>>
    ELSE <<Head(todo)>> \o Walk(Tail(todo) \o Head(todo).kids)

\* the aliases of one Import statement, checked in order
RECURSIVE CheckAliases(_, _)
CheckAliases(aliases, rej) ==
    IF aliases = <<>> THEN rej
    ELSE CheckAliases(Tail(aliases), check_import(Head(aliases).module, rej))

\* what the loop body appends for one node
VisitNode(node, rej) ==
    IF node.type = "Import" THEN CheckAliases(node.kids, rej)
    ELSE IF node.type = "ImportFrom" THEN check_import(node.module, rej)
    ELSE IF node.type = "Call" /\ call_name(node) \in BANNED_CALLS
         THEN Append(rej, Rejection("banned_call", <<call_name(node)>>))
    ELSE rej

RECURSIVE VisitAll(_, _)
VisitAll(nodes, rej) ==
    IF nodes = <<>> THEN rej
    ELSE VisitAll(Tail(nodes), VisitNode(Head(nodes), rej))

HasDef(nodes, types, n) ==
    \E i \in 1..Len(nodes) : nodes[i].type \in types /\ nodes[i].name = n

has_parse_args(nodes) == HasDef(nodes, {"FunctionDef"}, "parse_args")

has_main(nodes) == HasDef(nodes, {"FunctionDef", "AsyncFunctionDef"}, "main")

has_run(nodes) == HasDef(nodes, {"FunctionDef", "AsyncFunctionDef"}, "run")

has_main_guard(nodes) ==
    \E i \in 1..Len(nodes) : nodes[i].type = "If" /\ is_name_main_guard(nodes[i].kids[1])

MissingRun == Rejection("missing_required_entrypoint", <<"run(args) or async run(args)">>)

MissingParseArgs == Rejection("missing_required_entrypoint", <<"parse_args (legacy mode)">>)

MissingMain == Rejection("missing_required_entrypoint", <<"main (legacy mode)">>)

MissingGuard ==
    Rejection("missing_required_entrypoint", <<"if __name__ == '__main__' (legacy mode)">>)

EntrypointRejections(nodes) ==
    LET has_legacy_entrypoint ==
            has_parse_args(nodes) /\ has_main(nodes) /\ has_main_guard(nodes)
        has_minimal_entrypoint == has_run(nodes)
    IN  IF ~has_minimal_entrypoint /\ ~has_legacy_entrypoint
        THEN (IF ~has_run(nodes) THEN <<MissingRun>> ELSE <<>>)
             \o (IF ~has_parse_args(nodes) THEN <<MissingParseArgs>> ELSE <<>>)
             \o (IF ~has_main(nodes) THEN <<MissingMain>> ELSE <<>>)
             \o (IF ~has_main_guard(nodes) THEN <<MissingGuard>> ELSE <<>>)
        ELSE <<>>

\* the list `rejections` just before the de-duplication loop
RawRejections(tree) ==
    LET nodes == Walk(<<tree>>)
    IN  VisitAll(nodes, <<>>) \o EntrypointRejections(nodes)

\* a mutant of UniqueRejections: the list is returned as collected
KeepAll(rej) == rej

\* the `seen` loop: keep the first occurrence of each rejection
UniqueRejections(rej) ==
    LET RECURSIVE Go(_, _, _)
        Go(rest, seen, unique) ==
            IF rest = <<>> THEN unique
            ELSE IF Head(rest) \notin seen
                 THEN Go(Tail(rest), seen \cup {Head(rest)}, Append(unique, Head(rest)))
                 ELSE Go(Tail(rest), seen, unique)
    IN  Go(rej, {}, <<>>)

validate_custom_workflow_code(src) ==
    IF src.type = "SyntaxError"
    THEN << Rejection("syntax_error", <<src.name, "line 1">>) >>
    ELSE UniqueRejections(RawRejections(src))

(***************************************************************************)
(* Inputs of the validator: a program is an entrypoint part preceded by up *)
(* to MaxExtra other statements, or does not parse at all.                 *)
(***************************************************************************)
NameEqMain == Compare(Leaf("Name", "__name__"), <<"Eq">>, <<Leaf("Constant", "__main__")>>)

\* if __name__ == "__main__": pass
MainGuard == If(NameEqMain, <<Pass>>)

\* if __name__ != "__main__": pass
NotAGuard ==
    If(Compare(Leaf("Name", "__name__"), <<"NotEq">>, <<Leaf("Constant", "__main__")>>),
       <<Pass>>)

DefRun == FunctionDef("run", <<Pass>>)

DefParseArgs == FunctionDef("parse_args", <<Pass>>)

DefMain == FunctionDef("main", <<Pass>>)

EntryParts ==
    { <<>>,
      <<DefRun>>,
      <<AsyncFunctionDef("run", <<Pass>>)>>,
      <<ClassDef("K", <<DefRun>>)>>,
      <<DefParseArgs, DefMain, MainGuard>>,
      <<DefParseArgs, AsyncFunctionDef("main", <<Pass>>), MainGuard>>,
      <<DefParseArgs, FunctionDef("main", <<MainGuard>>)>>,
      <<DefParseArgs, DefMain>>,
      <<DefParseArgs, DefMain, NotAGuard>>,
      <<AsyncFunctionDef("parse_args", <<Pass>>), DefMain, MainGuard>>,
      <<DefMain, MainGuard>> }

ExtraStmts ==
    { Import(<< <<"os">> >>),
      Import(<< <<"os", "path">> >>),
      Import(<< <<"json">> >>),
      Import(<< <<"json", "decoder">> >>),
      Import(<< <<"runtime">> >>),
      Import(<< <<"runtime", "zoekt_tools">> >>),
      Import(<< <<"requests">>, <<"os">>, <<"requests">> >>),
      ImportFrom(<<"runtime">>, <<"zoekt_tools">>),
      ImportFrom(<<"runtime">>, <<"dangerous">>),
      ImportFrom(<<>>, <<"os">>),
      Expr(Call(Leaf("Name", "eval"))),
      Expr(Call(Attribute(Leaf("Name", "obj"), "open"))),
      Expr(Call(Leaf("Name", "print"))),
      FunctionDef("helper", <<Import(<< <<"os">> >>), Expr(Call(Leaf("Name", "eval")))>>) }

SeqsUpTo(S, n) == UNION { [1..k -> S] : k \in 0..n }

Programs ==
    { Module(extra \o entry) : extra \in SeqsUpTo(ExtraStmts, MaxExtra), entry \in EntryParts }
    \cup { SyntaxError }

(***************************************************************************)
(* runner.py: the workflow CLI parser.                                     *)
(* A token of shlex.split is [dd, text]: dd says that the token starts     *)
(* with "--" and text is what follows it (the whole token when dd is       *)
(* FALSE).  A raw or coerced value is [kind, text, num] with kind "str",   *)
(* "int" or "bool" (num is 1 for True, 0 for False).                       *)
(***************************************************************************)
Flag(t) == [dd |-> TRUE, text |-> t]

Word(t) == [dd |-> FALSE, text |-> t]

StrValue(t) == [kind |-> "str", text |-> t, num |-> 0]

IntValue(n) == [kind |-> "int", text |-> "", num |-> n]

BoolValue(b) == [kind |-> "bool", text |-> "", num |-> IF b THEN 1 ELSE 0]

NoValue == [kind |-> "none", text |-> "", num |-> 0]

\* one entry of a workflow's arg_schema
Arg(n, t, rq, dflt, lo, hi) ==
    [name |-> n, type |-> t, required |-> rq, default |-> dflt,
     minimum |-> lo, maximum |-> hi]

\* the manifest of tests/test_runner_arg_bounds.py, a workflow whose integer
\* default lies above its maximum, and a workflow whose arguments all have
\* defaults: a string that begins with "--" and a required boolean, a workflow
\* whose integer default is not an integer, two workflows without arguments
\* whose script_path leaves the source root, and a workflow whose arg_schema is
\* a list (the parser reads a non-mapping arg_schema as {})
WorkflowIndex ==
    [ symbol_usage |->
        << Arg("query", "string", TRUE, NoValue, NoValue, NoValue),
           Arg("context_lines", "integer", FALSE, IntValue(2), IntValue(0), IntValue(2)) >>,
      page |->
        << Arg("limit", "integer", FALSE, IntValue(5), IntValue(1), IntValue(3)),
           Arg("context_lines", "boolean", FALSE, NoValue, NoValue, NoValue) >>,
      trace |->
        << Arg("pattern", "string", FALSE, StrValue("--all"), NoValue, NoValue),
           Arg("deep", "boolean", TRUE, BoolValue(TRUE), NoValue, NoValue) >>,
      fetch |->
        << Arg("query", "string", TRUE, NoValue, NoValue, NoValue),
           Arg("limit", "integer", FALSE, StrValue("abc"), NoValue, NoValue) >>,
      escape |-> <<>>,
      absolute |-> <<>>,
      listed |-> <<>> ]

\* the workflows whose arg_schema is not a mapping
NonMappingSchemas == {"listed"}

\* int(text) for the value texts of the model; any other text raises ValueError
IntOfText == [ t \in {"-1", "0", "1", "2", "3", "5"} |->
                 CASE t = "-1" -> -1 [] t = "0" -> 0 [] t = "1" -> 1 [] t = "2" -> 2
                   [] t = "3" -> 3 [] t = "5" -> 5 ]

\* str(n) for an integer default
TextOfInt(n) ==
    CASE n = -1 -> "-1" [] n = 0 -> "0" [] n = 1 -> "1" [] n = 2 -> "2" [] n = 3 -> "3"
      [] n = 5 -> "5" [] OTHER -> "n"

\* str(raw_value)
Str(raw) ==
    IF raw.kind = "int" THEN TextOfInt(raw.num)
    ELSE IF raw.kind = "bool" THEN (IF raw.num = 1 THEN "True" ELSE "False")
    ELSE raw.text

\* text.strip().lower() for the value texts of the model
Lower(text) ==
    IF text = "True" THEN "true" ELSE IF text = "False" THEN "false" ELSE text

\* arg_name.replace('_', '-')
Dashed(arg_name) == IF arg_name = "context_lines" THEN "context-lines" ELSE arg_name

NoUsage == [id |-> "", parts |-> <<>>]

\* a mutant of workflow_usage: every flag is shown as required
workflow_usage_all_required(workflow_id, arg_schema) ==
    [id |-> workflow_id,
     parts |-> [i \in 1..Len(arg_schema) |->
                  [flag |-> Dashed(arg_schema[i].name), required |-> TRUE]]]

\* "Usage: <id> <parts>": a part with required is `--flag <value>`, one without
\* is `[--flag <value>]`
workflow_usage(workflow_id, arg_schema) ==
    [id |-> workflow_id,
     parts |-> [i \in 1..Len(arg_schema) |->
                  [flag |-> Dashed(arg_schema[i].name), required |-> arg_schema[i].required]]]

\* flag_aliases.get(token): the argument named by --<name> or --<name-with-dashes>
workflow_flag_aliases(arg_schema, token) ==
    LET hits == { i \in 1..Len(arg_schema) :
                    token.text \in {arg_schema[i].name, Dashed(arg_schema[i].name)} }
    IN  IF hits = {} THEN "" ELSE arg_schema[CHOOSE i \in hits : \A j \in hits : j <= i].name

\* the ValueError of the parser: "args validation failure: <detail> <subject>. <usage>"
CliError(detail, subject, usage) ==
    [ok |-> FALSE, workflow_id |-> "", args |-> <<>>,
     error |-> [prefix |-> "args validation failure: ", detail |-> detail,
                subject |-> subject, usage |-> usage]]

NoError == [prefix |-> "", detail |-> "", subject |-> "", usage |-> NoUsage]

CliOk(workflow_id, args) ==
    [ok |-> TRUE, workflow_id |-> workflow_id, args |-> args, error |-> NoError]

\* the result of a coercion: a value, or the error raised
Coerced(v) == [ok |-> TRUE, value |-> v, error |-> NoError]

CoerceError(detail, subject, usage) ==
    [ok |-> FALSE, value |-> NoValue, error |-> CliError(detail, subject, usage).error]

coerce_cli_arg_value(arg_name, raw_value, schema, usage) ==
    IF schema.type = "string" THEN Coerced(StrValue(Str(raw_value)))
    ELSE IF schema.type = "integer"
    THEN IF raw_value.kind = "int" THEN Coerced(IntValue(raw_value.num))
         ELSE IF raw_value.text \in DOMAIN IntOfText
              THEN Coerced(IntValue(IntOfText[raw_value.text]))
         ELSE CoerceError("invalid integer for", Dashed(arg_name), usage)
    ELSE IF schema.type = "boolean"
    THEN IF Lower(Str(raw_value)) \in {"true", "1", "yes", "on"} THEN Coerced(BoolValue(TRUE))
         ELSE IF Lower(Str(raw_value)) \in {"false", "0", "no", "off"}
              THEN Coerced(BoolValue(FALSE))
         ELSE CoerceError("invalid boolean for", Dashed(arg_name), usage)
    ELSE CoerceError("unsupported arg type", Dashed(arg_name), usage)

SchemaOf(arg_schema, arg_name) ==
    arg_schema[CHOOSE i \in 1..Len(arg_schema) : arg_schema[i].name = arg_name]

\* the loop over the token pairs; `parsed` is parsed_args, or the error raised
RECURSIVE ParsePairs(_, _, _, _, _)
ParsePairs(tokens, index, parsed, arg_schema, usage) ==
    IF index > Len(tokens) THEN [ok |-> TRUE, args |-> parsed, error |-> NoError]
    ELSE
      LET token == tokens[index]
          arg_name == workflow_flag_aliases(arg_schema, token)
          Fail(detail) == [ok |-> FALSE, args |-> <<>>,
                           error |-> CliError(detail, token.text, usage).error]
      IN  IF ~token.dd THEN Fail("unexpected positional argument")
          ELSE IF arg_name = "" THEN Fail("unknown flag")
          ELSE IF arg_name \in DOMAIN parsed THEN Fail("duplicate flag")
          ELSE IF index + 1 > Len(tokens) THEN Fail("missing value for")
          ELSE IF tokens[index + 1].dd THEN Fail("missing value for")
          ELSE
            LET c == coerce_cli_arg_value(arg_name, StrValue(tokens[index + 1].text),
                                          SchemaOf(arg_schema, arg_name), usage)
            IN  IF ~c.ok THEN [ok |-> FALSE, args |-> <<>>, error |-> c.error]
                ELSE ParsePairs(tokens, index + 2, parsed @@ (arg_name :> c.value),
                                arg_schema, usage)

\* the loop that fills in the defaults of the arguments not supplied
RECURSIVE ApplyDefaults(_, _, _, _)
ApplyDefaults(i, parsed, arg_schema, usage) ==
    IF i > Len(arg_schema) THEN [ok |-> TRUE, args |-> parsed, error |-> NoError]
    ELSE IF arg_schema[i].name \in DOMAIN parsed \/ arg_schema[i].default = NoValue
    THEN ApplyDefaults(i + 1, parsed, arg_schema, usage)
    ELSE
      LET c == coerce_cli_arg_value(arg_schema[i].name, arg_schema[i].default,
                                    arg_schema[i], usage)
      IN  IF ~c.ok THEN [ok |-> FALSE, args |-> <<>>, error |-> c.error]
          ELSE ApplyDefaults(i + 1, parsed @@ (arg_schema[i].name :> c.value),
                             arg_schema, usage)

\* the missing required flags, in schema order
MissingRequired(arg_schema, parsed) ==
    LET RECURSIVE Go(_)
        Go(i) == IF i > Len(arg_schema) THEN <<>>
                 ELSE (IF arg_schema[i].required /\ arg_schema[i].name \notin DOMAIN parsed
                       THEN <<Dashed(arg_schema[i].name)>> ELSE <<>>) \o Go(i + 1)
    IN  Go(1)

\* a mutant of parse_workflow_cli_command: the required check runs first
parse_workflow_cli_command_required_first(cmd) ==
    IF cmd.lex = "ok" /\ cmd.tokens = <<>>
    THEN CliError("command must not be empty", "", NoUsage)
    ELSE IF cmd.lex = "error" THEN CliError("invalid command", "", NoUsage)
    ELSE
      LET workflow_id == cmd.tokens[1].text
      IN  IF cmd.tokens[1].dd \/ workflow_id \notin DOMAIN WorkflowIndex
          THEN CliError("unknown workflow_id", cmd.tokens[1].text, NoUsage)
          ELSE
            LET arg_schema == WorkflowIndex[workflow_id]
                usage == workflow_usage(workflow_id, arg_schema)
                supplied == ParsePairs(cmd.tokens, 2, <<>>, arg_schema, usage)
                filled == ApplyDefaults(1, supplied.args, arg_schema, usage)
                missing == MissingRequired(arg_schema, filled.args)
            IN  IF missing # <<>>
                THEN CliError("missing required flags", missing, usage)
                ELSE IF ~supplied.ok
                THEN [CliError("", "", usage) EXCEPT !.error = supplied.error]
                ELSE IF ~filled.ok THEN [CliError("", "", usage) EXCEPT !.error = filled.error]
                ELSE CliOk(workflow_id, filled.args)

\* cmd is [lex, tokens]: lex = "error" when shlex.split raises (an unclosed quote)
parse_workflow_cli_command(cmd) ==
    IF cmd.lex = "ok" /\ cmd.tokens = <<>>
    THEN CliError("command must not be empty", "", NoUsage)
    ELSE IF cmd.lex = "error" THEN CliError("invalid command", "", NoUsage)
    ELSE
      LET workflow_id == cmd.tokens[1].text
      IN  IF cmd.tokens[1].dd \/ workflow_id \notin DOMAIN WorkflowIndex
          THEN CliError("unknown workflow_id", cmd.tokens[1].text, NoUsage)
          ELSE
            LET arg_schema == WorkflowIndex[workflow_id]
                usage == workflow_usage(workflow_id, arg_schema)
                supplied == ParsePairs(cmd.tokens, 2, <<>>, arg_schema, usage)
                filled == ApplyDefaults(1, supplied.args, arg_schema, usage)
                missing == MissingRequired(arg_schema, filled.args)
            IN  IF ~supplied.ok THEN [CliError("", "", usage) EXCEPT !.error = supplied.error]
                ELSE IF ~filled.ok THEN [CliError("", "", usage) EXCEPT !.error = filled.error]
                ELSE IF missing # <<>>
                     THEN CliError("missing required flags", missing, usage)
                ELSE CliOk(workflow_id, filled.args)

(***************************************************************************)
(* runner.py: text.  A byte is a string: an ASCII character stands for its *)
(* own byte, "xNN" is the byte 0xNN.  A text is a sequence of characters:  *)
(* an ASCII character, "uFFFD" (the replacement character), "u00E9", or a  *)
(* whole message literal appended by the runner.  The children of the      *)
(* model write single ASCII bytes, 0xFF and the two bytes of U+00E9.       *)
(***************************************************************************)
\* F(v), with v computed once however often F uses it
With(v, F(_)) == CHOOSE r \in { F(x) : x \in {v} } : TRUE

NonAsciiBytes == { "xFF", "xC3", "xA9", "xEF", "xBF", "xBD" }

\* one character as UTF-8
EncodeChar(ch) ==
    IF ch = "uFFFD" THEN <<"xEF", "xBF", "xBD">>
    ELSE IF ch = "u00E9" THEN <<"xC3", "xA9">>
    ELSE <<ch>>

\* str.encode("utf-8")
RECURSIVE Encode(_)
Encode(text) ==
    IF text = <<>> THEN <<>> ELSE EncodeChar(Head(text)) \o With(Tail(text), Encode)

Drop(s, n) == SubSeq(s, n + 1, Len(s))

\* bytes.decode("utf-8", errors="replace"): a complete sequence gives its character,
\* a maximal ill-formed prefix gives one U+FFFD
RECURSIVE Decode(_)
Decode(raw) ==
    IF raw = <<>> THEN <<>>
    ELSE IF Head(raw) \notin NonAsciiBytes THEN <<Head(raw)>> \o With(Tail(raw), Decode)
    ELSE IF Head(raw) = "xC3" /\ Len(raw) >= 2 /\ raw[2] = "xA9"
         THEN <<"u00E9">> \o With(Drop(raw, 2), Decode)
    ELSE IF Head(raw) = "xEF" /\ Len(raw) >= 3 /\ raw[2] = "xBF" /\ raw[3] = "xBD"
         THEN <<"uFFFD">> \o With(Drop(raw, 3), Decode)
    ELSE IF Head(raw) = "xEF" /\ Len(raw) >= 2 /\ raw[2] = "xBF"
         THEN <<"uFFFD">> \o With(Drop(raw, 2), Decode)
    ELSE <<"uFFFD">> \o With(Tail(raw), Decode)

decode_lossy(raw) == Decode(raw)

\* "[<stream_name> truncated at <max_bytes> bytes]", max_bytes being the runner's cap
TruncationNote(stream_name) ==
    IF stream_name = "stdout" THEN "[stdout truncated at N bytes]"
    ELSE "[stderr truncated at N bytes]"

decode_and_cap(raw, max_bytes, stream_name) ==
    IF Len(raw) <= max_bytes THEN Decode(raw)
    ELSE Decode(SubSeq(raw, 1, max_bytes)) \o <<"\n", TruncationNote(stream_name)>>

cap_text(value, max_bytes, stream_name) ==
    LET raw == Encode(value)
    IN  IF Len(raw) <= max_bytes THEN value
        ELSE Decode(SubSeq(raw, 1, max_bytes)) \o <<"\n", TruncationNote(stream_name)>>

RESULT_MARKER ==
    <<"_", "_", "R", "E", "S", "U", "L", "T", "_", "J", "S", "O", "N", "_", "_", "=">>

TIMEOUT_EXIT_CODE == 124

StartsWith(s, prefix) == Len(s) >= Len(prefix) /\ SubSeq(s, 1, Len(prefix)) = prefix

\* str.splitlines() for texts whose only line break is "\n"
RECURSIVE SplitLines(_)
SplitLines(text) ==
    IF text = <<>> THEN <<>>
    ELSE IF \E i \in 1..Len(text) : text[i] = "\n"
    THEN LET i == CHOOSE k \in 1..Len(text) :
                     text[k] = "\n" /\ \A m \in 1..(k - 1) : text[m] # "\n"
         IN  <<SubSeq(text, 1, i - 1)>> \o With(Drop(text, i), SplitLines)
    ELSE <<text>>

\* "\n".join(lines)
RECURSIVE JoinLines(_)
JoinLines(lines) ==
    IF lines = <<>> THEN <<>>
    ELSE IF Len(lines) = 1 THEN lines[1]
    ELSE lines[1] \o <<"\n">> \o With(Tail(lines), JoinLines)

\* str.strip() for texts whose only white space is "\n"
RECURSIVE Strip(_)
Strip(text) ==
    IF text = <<>> THEN <<>>
    ELSE IF Head(text) = "\n" THEN With(Tail(text), Strip)
    ELSE IF text[Len(text)] = "\n" THEN With(SubSeq(text, 1, Len(text) - 1), Strip)
    ELSE text

\* None, and the None that json.loads("null") returns
None == <<>>

\* json.loads for the payloads of the model: null, or a number written with the
\* digits 1 and 2; anything else raises JSONDecodeError.  A number is kept as its
\* digits.
json_loads(payload) ==
    LET t == Strip(payload)
    IN  IF t = <<"n", "u", "l", "l">> THEN [ok |-> TRUE, value |-> None]
        ELSE IF t # <<>> /\ \A i \in 1..Len(t) : t[i] \in {"1", "2"}
             THEN [ok |-> TRUE, value |-> t]
        ELSE [ok |-> FALSE, value |-> None]

Extracted(stdout, result_json, parse_error, marker_found) ==
    [stdout |-> stdout, result_json |-> result_json, parse_error |-> parse_error,
     marker_found |-> marker_found]

\* a mutant of extract_from_lines: the first marker line is used, not the last
extract_from_lines_first(stdout, lines) ==
    LET marked == { i \in 1..Len(lines) : StartsWith(lines[i], RESULT_MARKER) }
    IN  IF marked # {}
        THEN LET index == CHOOSE i \in marked : \A j \in marked : i <= j
             IN  Extracted(JoinLines(SubSeq(lines, 1, index - 1) \o Drop(lines, index)),
                           json_loads(Drop(lines[index], Len(RESULT_MARKER))).value,
                           <<>>, TRUE)
        ELSE Extracted(stdout, None, <<>>, FALSE)

\* _extract_result_json once stdout.splitlines() is known
extract_from_lines(stdout, lines) ==
    LET marked == { i \in 1..Len(lines) : StartsWith(lines[i], RESULT_MARKER) }
    IN  IF marked # {}
        THEN LET index == CHOOSE i \in marked : \A j \in marked : j <= i
                 payload == Drop(lines[index], Len(RESULT_MARKER))
                 cleaned_stdout ==
                     JoinLines(SubSeq(lines, 1, index - 1) \o Drop(lines, index))
             IN  IF json_loads(payload).ok
                 THEN Extracted(cleaned_stdout, json_loads(payload).value, <<>>, TRUE)
                 ELSE Extracted(cleaned_stdout, None,
                                <<"malformed result marker JSON: <msg>">>, TRUE)
        ELSE IF Strip(stdout) # <<>> /\ json_loads(Strip(stdout)).ok
             THEN Extracted(<<>>, json_loads(Strip(stdout)).value, <<>>, FALSE)
        ELSE Extracted(stdout, None, <<>>, FALSE)

\* parse_error is <<>> for None, else the one-message text
extract_result_json(stdout) ==
    LET from_lines(lines) == extract_from_lines(stdout, lines)
    IN  With(SplitLines(stdout), from_lines)

(***************************************************************************)
(* runner.py: results and the pieces of one invocation.                    *)
(***************************************************************************)
ExecutionResult(success, exit_code, stdout, stderr, result_json, timing_ms, rej) ==
    [success |-> success, exit_code |-> exit_code, stdout |-> stdout, stderr |-> stderr,
     result_json |-> result_json, timing_ms |-> timing_ms, safety_rejections |-> rej]

error_result(message, exit_code, timing_ms) ==
    ExecutionResult(FALSE, exit_code, <<>>, <<message>>, None, timing_ms, <<>>)

normalize_timeout(timeout_seconds) ==
    IF timeout_seconds <= 0 THEN TimeoutDefault
    ELSE IF timeout_seconds < TimeoutMax THEN timeout_seconds ELSE TimeoutMax

\* int((time.monotonic() - start) * 1000) on the clock of the model
elapsed_ms(seconds) == seconds * 1000

\* the error message of _validate_required_args, or "" for None
validate_required_args(arg_schema, args) ==
    IF \E i \in 1..Len(arg_schema) :
           arg_schema[i].required /\ arg_schema[i].name \notin DOMAIN args
    THEN "args validation failure: missing required args: <names>"
    ELSE ""

\* a path: absolute or relative, and its components
AbsPath(parts) == [abs |-> TRUE, parts |-> parts]

RelPath(parts) == [abs |-> FALSE, parts |-> parts]

\* no script_path, or an empty one
NoPath == RelPath(<<>>)

src_root == AbsPath(<<"srv", "src">>)

\* workflow.get("script_path"): the workflow "page" has none
script_path(workflow_id) ==
    CASE workflow_id \in {"symbol_usage", "listed"}
           -> RelPath(<<"workflows", "scripts", "symbol_usage.py">>)
      [] workflow_id = "escape" -> RelPath(<<"..", "escape.py">>)
      [] workflow_id = "absolute" -> AbsPath(<<"opt", "absolute.py">>)
      [] OTHER -> NoPath

\* Path.__truediv__: an absolute right operand replaces the left one
Join(a, b) == IF b.abs THEN b ELSE [abs |-> a.abs, parts |-> a.parts \o b.parts]

\* the file the operating system opens for a path: ".." leaves a directory
RECURSIVE ResolveParts(_, _)
ResolveParts(done, parts) ==
    IF parts = <<>> THEN done
    ELSE IF Head(parts) = ".."
    THEN ResolveParts(IF done = <<>> THEN <<>> ELSE SubSeq(done, 1, Len(done) - 1), Tail(parts))
    ELSE ResolveParts(Append(done, Head(parts)), Tail(parts))

Resolve(path) == [abs |-> path.abs, parts |-> ResolveParts(<<>>, path.parts)]

\* the file of path lies in the directory root
IsUnder(root, path) ==
    LET r == Resolve(root).parts
        f == Resolve(path).parts
    IN  path.abs = root.abs /\ Len(f) > Len(r) /\ SubSeq(f, 1, Len(r)) = r

\* the result of the except asyncio.TimeoutError branch, from the drained bytes
timeout_result(stdout_bytes, stderr_bytes, seconds) ==
    LET stdout == decode_and_cap(stdout_bytes, StdoutMaxBytes, "stdout")
        stderr == decode_and_cap(stderr_bytes, StderrMaxBytes, "stderr")
    IN  ExecutionResult(FALSE, TIMEOUT_EXIT_CODE, stdout,
                        IF stderr # <<>> THEN stderr \o <<"\n", "execution timed out">>
                        ELSE <<"execution timed out">>,
                        None, elapsed_ms(seconds), <<>>)

\* a mutant of completed_from: success is computed as "not killed by a signal"
completed_from_nonnegative(x, full_stderr, rc, seconds) ==
    ExecutionResult(rc >= 0, rc, x.stdout, full_stderr, x.result_json,
                    elapsed_ms(seconds), <<>>)

\* lines 252-269 of _execute, from the decoded streams and the extraction
completed_from(x, full_stderr, rc, seconds) ==
    LET stdout == cap_text(x.stdout, StdoutMaxBytes, "stdout")
        stderr0 == cap_text(full_stderr, StderrMaxBytes, "stderr")
        stderr1 == IF ~x.marker_found /\ x.result_json = None
                   THEN (IF stderr0 # <<>> THEN stderr0 \o <<"\n", "result marker not found">>
                         ELSE <<"result marker not found">>)
                   ELSE stderr0
        stderr == IF x.parse_error # <<>>
                  THEN (IF stderr1 # <<>> THEN stderr1 \o <<"\n">> \o x.parse_error
                        ELSE x.parse_error)
                  ELSE stderr1
        exit_code == rc
    IN  ExecutionResult(exit_code = 0, exit_code, stdout, stderr, x.result_json,
                        elapsed_ms(seconds), <<>>)

\* the result built after communicate() returned in time
completed_result(stdout_bytes, stderr_bytes, rc, seconds) ==
    LET from_stdout(full_stdout) ==
            LET from_x(x) == completed_from(x, decode_lossy(stderr_bytes), rc, seconds)
            IN  With(extract_result_json(full_stdout), from_x)
    IN  With(decode_lossy(stdout_bytes), from_stdout)

\* the result returned when the validator rejects the code
rejected_result(rej) ==
    ExecutionResult(FALSE, 1, <<>>, <<"custom workflow code rejected by safety policy">>,
                    None, 0, rej)

\* the error run_workflow_script returns before it creates anything, or "" for none
script_error(workflow_id, args, script_exists) ==
    IF workflow_id \notin DOMAIN WorkflowIndex THEN "unknown workflow_id: <id>"
    ELSE IF validate_required_args(WorkflowIndex[workflow_id], args) # ""
    THEN validate_required_args(WorkflowIndex[workflow_id], args)
    ELSE IF script_path(workflow_id) = NoPath THEN "workflow script_path missing: <id>"
    ELSE IF ~script_exists THEN "workflow script missing: <path>"
    ELSE ""

\* a mutant of custom_gate: the code is run whatever the validator says
custom_gate_open(rej) == TRUE

\* `if rejections:` of run_custom_workflow_code: TRUE when the code may be run
custom_gate(rej) == rej = <<>>

(***************************************************************************)
(* Parked values: a specification leaves the other subsystems here.        *)
(***************************************************************************)
ParkedSafety ==
    /\ code = SyntaxError
    /\ rejections = <<>>
    /\ vpc = "parked"
    /\ evaluations = 0

ParkedCli ==
    /\ command = [lex |-> "ok", tokens |-> <<>>]
    /\ cli = <<>>
    /\ cpc = "parked"
    /\ reparse = <<>>

ParkedRunner ==
    /\ pc = "parked"
    /\ req = <<>>
    /\ tempDir = "none"
    /\ child = "none"
    /\ returncode = 0
    /\ pipeOut = <<>>
    /\ pipeErr = <<>>
    /\ now = 0
    /\ result = <<>>
    /\ via = "none"

(***************************************************************************)
(* SpecSafety: validate_custom_workflow_code applied to every program.     *)
(***************************************************************************)
ParkedCall ==
    /\ call = <<>>
    /\ ret = <<>>
    /\ fpc = "parked"

InitSafety ==
    /\ code \in Programs
    /\ rejections = <<>>
    /\ vpc = "input"
    /\ evaluations = 0
    /\ ParkedCli
    /\ ParkedRunner
    /\ ParkedCall

Validate ==
    /\ vpc \in {"input", "validated"}
    /\ evaluations < MaxEvaluations
    /\ rejections' = validate_custom_workflow_code(code)
    /\ vpc' = "validated"
    /\ evaluations' = evaluations + 1
    /\ UNCHANGED <<code, cliVars, runnerVars, callVars>>

NextSafety == Validate

SpecSafety == InitSafety /\ [][NextSafety]_vars

(***************************************************************************)
(* Claims about the safety validator (checked under SpecSafety).           *)
(***************************************************************************)
Range(f) == { f[i] : i \in DOMAIN f }

Validated == vpc = "validated" /\ code.type = "Module"

\* the effective module names the validator hands to check_import
ImportNames(tree) ==
    LET nodes == Walk(<<tree>>)
    IN  { nodes[i].module : i \in { j \in 1..Len(nodes) : nodes[j].type = "ImportFrom" } }
        \cup UNION { { nodes[i].kids[k].module : k \in 1..Len(nodes[i].kids) } :
                     i \in { j \in 1..Len(nodes) : nodes[j].type = "Import" } }

\* the import rejections of the returned list that name n
ImportRejections(n) ==
    { r \in Range(rejections) : r.kind \in {"banned_import", "disallowed_import"} /\ r.arg = n }

IsBannedName(n) ==
    \E banned \in BANNED_IMPORT_PREFIXES : n = banned \/ StartsWithDotted(n, banned)

IsAllowedName(n) ==
    \E allowed \in ALLOWED_IMPORTS : n = allowed \/ StartsWithDotted(n, allowed)

ImportPolicy(n) ==
    IF IsBannedName(n)
    THEN ImportRejections(n) = { Rejection("banned_import", n) }
    ELSE /\ ImportRejections(n) = {} <=> IsAllowedName(n)
         /\ ~IsAllowedName(n) => ImportRejections(n) = { Rejection("disallowed_import", n) }

\* C6 (as claimed): a program whose only import is `from runtime import N`, with a
\* run function, is checked by the resolved target runtime.N: no rejection for
\* N = zoekt_tools, exactly "disallowed_import: runtime.N" for any other N.
C6_FromRuntimeImportByTarget ==
    \A N \in {"zoekt_tools", "dangerous"} :
        (vpc = "validated" /\ code = Module(<<ImportFrom(<<"runtime">>, <<N>>), DefRun>>))
        => rejections = (IF N = "zoekt_tools" THEN <<>>
                         ELSE << Rejection("disallowed_import", <<"runtime", N>>) >>)

DefinesFunction(tree, n) ==
    HasDef(Walk(<<tree>>), IF n = "parse_args" THEN {"FunctionDef"}
                           ELSE {"FunctionDef", "AsyncFunctionDef"}, n)

\* an `if __name__ == "__main__":` statement of the module body itself
TopLevelGuard(tree) ==
    \E i \in 1..Len(tree.kids) :
        tree.kids[i].type = "If" /\ is_name_main_guard(tree.kids[i].kids[1])

\* C8 (as claimed): no missing_required_entrypoint rejection iff the source defines
\* run, or parse_args and main and a guard at the top level of the module; when the
\* contract is not met, each missing piece has its own rejection.
C8_EntrypointContract ==
    Validated =>
        LET contract == \/ DefinesFunction(code, "run")
                        \/ /\ DefinesFunction(code, "parse_args")
                           /\ DefinesFunction(code, "main")
                           /\ TopLevelGuard(code)
            entry == { r \in Range(rejections) : r.kind = "missing_required_entrypoint" }
        IN  /\ entry = {} <=> contract
            /\ ~contract =>
                  /\ MissingRun \in entry <=> ~DefinesFunction(code, "run")
                  /\ MissingParseArgs \in entry <=> ~DefinesFunction(code, "parse_args")
                  /\ MissingMain \in entry <=> ~DefinesFunction(code, "main")
                  /\ MissingGuard \in entry <=> ~TopLevelGuard(code)

FirstIndex(s, x) == CHOOSE k \in 1..Len(s) : s[k] = x /\ \A m \in 1..(k - 1) : s[m] # x

\* u lists each element of raw once, in the order of first occurrence in raw
IsFirstOccurrenceList(u, raw) ==
    /\ \A i, j \in 1..Len(u) : i # j => u[i] # u[j]
    /\ Range(u) = Range(raw)
    /\ \A i, j \in 1..Len(u) : i < j => FirstIndex(raw, u[i]) < FirstIndex(raw, u[j])

\* C9: the returned list has no duplicates, keeps the order of first occurrence of
\* each rejection collected, and a repeated evaluation of the same input returns the
\* same list.
C9_UniqueStableRejections ==
    /\ [](Validated => IsFirstOccurrenceList(rejections, RawRejections(code)))
    /\ [](vpc = "validated" /\ code.type = "SyntaxError" => Len(rejections) = 1)
    /\ [][vpc = "validated" => rejections' = rejections]_vars

\* a second evaluation of a program whose collected list repeats a rejection
C9_Witness ==
    /\ Validated
    /\ evaluations = 2
    /\ Len(rejections) >= 3
    /\ Len(RawRejections(code)) > Len(rejections)

(***************************************************************************)
(* SpecCli: parse_workflow_cli_command applied to every command.           *)
(***************************************************************************)
IdTokens ==
    { Word("symbol_usage"), Word("page"), Word("trace"), Word("fetch"), Word("nosuch") }

ArgTokens ==
    { Flag("query"), Flag("context-lines"), Flag("context_lines"), Flag("bogus"),
      Word("X"), Word("2"), Word("3"), Word("-1"), Word("abc") }

Commands ==
    { [lex |-> "ok", tokens |-> <<id>> \o rest] :
        id \in IdTokens, rest \in SeqsUpTo(ArgTokens, MaxArgTokens) }
    \cup { [lex |-> "ok", tokens |-> <<>>], [lex |-> "error", tokens |-> <<>>] }

InitCli ==
    /\ command \in Commands
    /\ cli = <<>>
    /\ cpc = "input"
    /\ reparse = <<>>
    /\ ParkedSafety
    /\ ParkedRunner
    /\ ParkedCall

Parse ==
    /\ cpc = "input"
    /\ cli' = parse_workflow_cli_command(command)
    /\ cpc' = "parsed"
    /\ UNCHANGED <<command, reparse, safetyVars, runnerVars, callVars>>

\* the sequences in which every element of S occurs once
Orders(S) ==
    { o \in [1..Cardinality(S) -> S] : \A i, j \in 1..Cardinality(S) : o[i] = o[j] => i = j }

\* the token shlex.split gives for a quoted value
ValueToken(text) == IF text = "--all" THEN Flag("all") ELSE Word(text)

\* `<id> --name value ...` for the given order and spelling of the flags
Serialise(workflow_id, args, order, spelling) ==
    LET RECURSIVE Pairs(_)
        Pairs(i) ==
            IF i > Len(order) THEN <<>>
            ELSE <<Flag(IF spelling[order[i]] THEN Dashed(order[i]) ELSE order[i]),
                   ValueToken(Str(args[order[i]]))>> \o Pairs(i + 1)
    IN  [lex |-> "ok", tokens |-> <<Word(workflow_id)>> \o Pairs(1)]

\* a caller serialises the args of an accepted command and parses the result
Reparse ==
    /\ cpc = "parsed"
    /\ cli.ok
    /\ \E order \in Orders(DOMAIN cli.args), spelling \in [DOMAIN cli.args -> BOOLEAN] :
         LET again == Serialise(cli.workflow_id, cli.args, order, spelling)
         IN  reparse' = [command |-> again, cli |-> parse_workflow_cli_command(again)]
    /\ cpc' = "reparsed"
    /\ UNCHANGED <<command, cli, safetyVars, runnerVars, callVars>>

NextCli == Parse \/ Reparse

SpecCli == InitCli /\ [][NextCli]_vars

(***************************************************************************)
(* Claims about the CLI parser (checked under SpecCli).                    *)
(***************************************************************************)
\* the value tokens a command supplies for argument arg_name of its workflow
SuppliedFor(cmd, arg_name) ==
    { cmd.tokens[i + 1].text :
        i \in { j \in 2..(Len(cmd.tokens) - 1) :
                  /\ cmd.tokens[j].dd
                  /\ cmd.tokens[j].text \in {arg_name, Dashed(arg_name)}
                  /\ ~cmd.tokens[j + 1].dd } }

InBounds(schema, v) ==
    /\ schema.minimum # NoValue => schema.minimum.num <= v
    /\ schema.maximum # NoValue => v <= schema.maximum.num

\* a command of the form `<id> --flag value ...` for a known workflow
WellFormedFor(cmd) ==
    /\ cmd.lex = "ok" /\ cmd.tokens # <<>>
    /\ ~cmd.tokens[1].dd /\ cmd.tokens[1].text \in DOMAIN WorkflowIndex

\* C4 (as claimed): an integer value supplied for an argument with a minimum m
\* and/or a maximum M is accepted only if m <= v <= M; a value above M fails with
\* "must be <= M" and one below m with "must be >= m".
C4_IntegerBoundsEnforced ==
    (cpc = "parsed" /\ WellFormedFor(command)) =>
        \A i \in 1..Len(WorkflowIndex[command.tokens[1].text]) :
            LET schema == WorkflowIndex[command.tokens[1].text][i]
            IN  schema.type = "integer" =>
                  \A t \in SuppliedFor(command, schema.name) \cap DOMAIN IntOfText :
                     /\ cli.ok => InBounds(schema, IntOfText[t])
                     /\ (cli.ok /\ schema.name \in DOMAIN cli.args)
                           => InBounds(schema, cli.args[schema.name].num)

\* C5 (as claimed): an argument that is not supplied and has a default is filled
\* with the coerced default, and a default outside minimum/maximum makes the parse
\* fail as an explicit value would.
C5_DefaultCoercedAndBounded ==
    (cpc = "parsed" /\ WellFormedFor(command) /\ cli.ok) =>
        \A i \in 1..Len(WorkflowIndex[command.tokens[1].text]) :
            LET schema == WorkflowIndex[command.tokens[1].text][i]
            IN  (schema.default # NoValue /\ SuppliedFor(command, schema.name) = {}) =>
                  /\ schema.name \in DOMAIN cli.args
                  /\ cli.args[schema.name] =
                        coerce_cli_arg_value(schema.name, schema.default, schema, NoUsage).value
                  /\ schema.type = "integer" => InBounds(schema, cli.args[schema.name].num)

\* C14 (as claimed): the args of an accepted command, serialised as
\* `id --name value ...` in any flag order and either alias spelling, parse again
\* to an equal args map; defaults, booleans, negative integers and strings that
\* begin with "--" included.
C14_RoundTrip ==
    cpc = "reparsed" => (reparse.cli.ok /\ reparse.cli.args = cli.args)

\* the errors raised before the workflow of the command is known
EarlyErrors == {"command must not be empty", "invalid command", "unknown workflow_id"}

\* the error raised by the parse of `command`
Raised == cpc \in {"parsed", "reparsed"} /\ ~cli.ok

\* C15 (as claimed): every error of the parser, whatever its cause, starts with
\* "args validation failure: " and ends with the usage string of the workflow.
C15_EveryErrorEndsWithUsage ==
    Raised =>
        /\ cli.error.prefix = "args validation failure: "
        /\ cli.error.usage # NoUsage

\* C15 (amended): every error starts with "args validation failure: "; every
\* error raised once the workflow is known ends with the usage of that workflow,
\* one part per schema entry in schema order, required flags as `--name <value>`
\* and the others as `[--name <value>]`; the errors for an empty command, a
\* tokenisation failure and an unknown workflow id carry no usage.
C15_ErrorPrefixAndUsageOnceKnown ==
    Raised =>
        /\ cli.error.prefix = "args validation failure: "
        /\ IF cli.error.detail \in EarlyErrors
           THEN /\ cli.error.usage = NoUsage
                /\ \/ command.tokens = <<>>
                   \/ command.tokens[1].dd
                   \/ command.tokens[1].text \notin DOMAIN WorkflowIndex
           ELSE LET workflow_id == command.tokens[1].text
                    arg_schema == WorkflowIndex[workflow_id]
                    usage == cli.error.usage
                IN  /\ usage.id = workflow_id
                    /\ Len(usage.parts) = Len(arg_schema)
                    /\ \A i \in 1..Len(arg_schema) :
                          /\ usage.parts[i].flag = Dashed(arg_schema[i].name)
                          /\ usage.parts[i].required = arg_schema[i].required

\* a missing required flag has been reported with the usage of symbol_usage
C15_Witness ==
    /\ Raised
    /\ cli.error.detail = "missing required flags"
    /\ cli.error.usage.id = "symbol_usage"
    /\ \E i \in 1..Len(cli.error.usage.parts) : ~cli.error.usage.parts[i].required

\* the positions of the flags of a command made of `--flag value` pairs
FlagPositions(cmd) == { j \in 2..Len(cmd.tokens) : j % 2 = 0 }

\* the token at position j of a command for a known workflow cannot be the flag
\* of a `--flag value` pair that the token loop accepts
PairFault(cmd, j) ==
    LET arg_schema == WorkflowIndex[cmd.tokens[1].text]
        arg_name == workflow_flag_aliases(arg_schema, cmd.tokens[j])
    IN  \/ ~cmd.tokens[j].dd
        \/ arg_name = ""
        \/ \E k \in FlagPositions(cmd) :
              k < j /\ workflow_flag_aliases(arg_schema, cmd.tokens[k]) = arg_name
        \/ j + 1 > Len(cmd.tokens)
        \/ cmd.tokens[j + 1].dd
        \/ ~coerce_cli_arg_value(arg_name, StrValue(cmd.tokens[j + 1].text),
                                 SchemaOf(arg_schema, arg_name), NoUsage).ok

\* the arguments a command names with the flags of its pairs
SuppliedNames(cmd) ==
    { workflow_flag_aliases(WorkflowIndex[cmd.tokens[1].text], cmd.tokens[j]) :
        j \in FlagPositions(cmd) }

\* an argument the command does not supply has a default that cannot be coerced
DefaultFault(cmd) ==
    LET arg_schema == WorkflowIndex[cmd.tokens[1].text]
    IN  \E i \in 1..Len(arg_schema) :
           /\ arg_schema[i].name \notin SuppliedNames(cmd)
           /\ arg_schema[i].default # NoValue
           /\ ~coerce_cli_arg_value(arg_schema[i].name, arg_schema[i].default,
                                    arg_schema[i], NoUsage).ok

\* a fault other than a missing required flag
OtherFault(cmd) ==
    (\E j \in FlagPositions(cmd) : PairFault(cmd, j)) \/ DefaultFault(cmd)

\* the required arguments a command leaves without a value: not supplied and
\* without a default
Omitted(cmd) ==
    LET arg_schema == WorkflowIndex[cmd.tokens[1].text]
    IN  { i \in 1..Len(arg_schema) :
            /\ arg_schema[i].required
            /\ arg_schema[i].name \notin SuppliedNames(cmd)
            /\ arg_schema[i].default = NoValue }

MissingReported == ~cli.ok /\ cli.error.detail = "missing required flags"

\* C16: the required check runs last: "missing required flags" is raised only
\* when every supplied pair was accepted and every default was coerced, so a
\* command with another fault (unknown flag, duplicate flag, missing value, bad
\* integer or boolean, bad default) reports that fault even when it also omits a
\* required flag; and a required argument that has a default is never reported.
C16_RequiredCheckLast ==
    (cpc = "parsed" /\ WellFormedFor(command)) =>
        LET arg_schema == WorkflowIndex[command.tokens[1].text]
        IN  /\ MissingReported => ~OtherFault(command)
            /\ OtherFault(command) => (~cli.ok /\ ~MissingReported)
            /\ (~OtherFault(command) /\ Omitted(command) # {}) => MissingReported
            /\ MissingReported =>
                 /\ { cli.error.subject[k] : k \in 1..Len(cli.error.subject) }
                      = { Dashed(arg_schema[i].name) : i \in Omitted(command) }
                 /\ \A i \in 1..Len(arg_schema) :
                       (arg_schema[i].required /\ arg_schema[i].default # NoValue)
                          => \A k \in 1..Len(cli.error.subject) :
                                cli.error.subject[k] # Dashed(arg_schema[i].name)

\* a command that omits the required --query and has an unknown flag got the
\* error of the unknown flag
C16_Witness ==
    /\ cpc = "parsed" /\ WellFormedFor(command)
    /\ Omitted(command) # {}
    /\ \E j \in FlagPositions(command) : PairFault(command, j)
    /\ ~cli.ok
    /\ cli.error.detail = "unknown flag"

(***************************************************************************)
(* One invocation of the runner: run_workflow_script or                    *)
(* run_custom_workflow_code, then _execute and its child process.          *)
(***************************************************************************)
WorkflowIds == {"symbol_usage", "page", "escape", "absolute", "listed", "nosuch"}

\* the commands given to run_workflow_cli_command
CliCommands ==
    { [lex |-> "ok", tokens |-> <<>>],
      [lex |-> "error", tokens |-> <<>>],
      [lex |-> "ok", tokens |-> <<Word("nosuch")>>],
      [lex |-> "ok", tokens |-> <<Word("symbol_usage")>>],
      [lex |-> "ok", tokens |-> <<Word("symbol_usage"), Flag("bogus"), Word("X")>>],
      [lex |-> "ok", tokens |-> <<Word("symbol_usage"), Flag("query"), Word("X")>>],
      [lex |-> "ok", tokens |-> <<Word("page")>>],
      [lex |-> "ok", tokens |-> <<Word("escape")>>],
      [lex |-> "ok", tokens |-> <<Word("listed")>>] }

ScriptArgs == { <<>>, [query |-> StrValue("ProcessOrder")] }

TimeoutInputs == {0, 1, TimeoutMax + 1}

\* custom workflow sources: accepted ones and rejected ones
CustomSources ==
    { Module(<<DefRun>>),
      Module(<<DefParseArgs, DefMain, MainGuard>>),
      Module(<<Import(<< <<"os">> >>), DefRun>>),
      Module(<<Import(<< <<"os">> >>), Import(<< <<"os">> >>)>>),
      Module(<<>>),
      SyntaxError }

\* what a child can write to its stdout in one write
OutChunks ==
    { <<"h">>, <<"\n">>, <<"2">>, <<"n", "u", "l", "l">>,
      RESULT_MARKER \o <<"1">>,
      RESULT_MARKER \o <<"{">>,
      RESULT_MARKER \o <<"n", "u", "l", "l">> }

\* what a child can write to its stderr in one write
ErrChunks == { <<"e">>, <<"xFF">> }

\* the exit codes a child can end with by itself
ExitCodes == {0, 1, TIMEOUT_EXIT_CODE}

SIGKILL_RETURNCODE == 0 - 9

\* the bytes of a pipe, which holds the writes of the child in order
RECURSIVE Concat(_)
Concat(chunks) ==
    IF chunks = <<>> THEN <<>> ELSE Head(chunks) \o Concat(Tail(chunks))

Init ==
    /\ pc = "idle"
    /\ req = <<>>
    /\ tempDir = "none"
    /\ child = "none"
    /\ returncode = 0
    /\ pipeOut = <<>>
    /\ pipeErr = <<>>
    /\ now = 0
    /\ result = <<>>
    /\ via = "none"
    /\ ParkedSafety
    /\ ParkedCli
    /\ ParkedCall

Unused == <<vpc, evaluations, cliVars, callVars>>

\* run_workflow_script up to the call of _execute
\* the body of run_workflow_script up to the call of _execute; script_exists
\* and runtime_exists say what the file system holds
ScriptCall(workflow_id, args, t, script_exists, runtime_exists) ==
    /\ req' = [entry |-> "script", workflow_id |-> workflow_id, timeout_seconds |-> t]
    /\ IF workflow_id \in DOMAIN WorkflowIndex /\ workflow_id \in NonMappingSchemas
       THEN \* arg_schema.items() of _validate_required_args raises
            /\ via' = "AttributeError"
            /\ pc' = "raised"
            /\ UNCHANGED <<result, tempDir>>
       ELSE IF script_error(workflow_id, args, script_exists) # ""
       THEN /\ result' = error_result(script_error(workflow_id, args, script_exists), 2, 0)
            /\ via' = "error_result"
            /\ pc' = "done"
            /\ UNCHANGED tempDir
       ELSE IF ~runtime_exists
       THEN \* shutil.copytree raises; the with-block removes the directory
            /\ via' = "FileNotFoundError"
            /\ tempDir' = "removed"
            /\ pc' = "raised"
            /\ UNCHANGED result
       ELSE /\ tempDir' = "exists"
            /\ pc' = "spawning"
            /\ UNCHANGED <<result, via>>

RunWorkflowScript ==
    /\ pc = "idle"
    /\ \E workflow_id \in WorkflowIds, args \in ScriptArgs, t \in TimeoutInputs,
          script_exists \in BOOLEAN, runtime_exists \in BOOLEAN :
         ScriptCall(workflow_id, args, t, script_exists, runtime_exists)
    /\ UNCHANGED <<code, rejections, child, returncode, pipeOut, pipeErr, now, Unused>>

\* run_workflow_cli_command: the ValueError of the parser is not caught; an
\* accepted command goes on as run_workflow_script
RunWorkflowCliCommand ==
    /\ pc = "idle"
    /\ \E cmd \in CliCommands, t \in TimeoutInputs,
          script_exists \in BOOLEAN, runtime_exists \in BOOLEAN :
         LET parsed == parse_workflow_cli_command(cmd)
         IN  IF ~parsed.ok
             THEN /\ req' = [entry |-> "cli", workflow_id |-> "", timeout_seconds |-> t]
                  /\ via' = "ValueError"
                  /\ pc' = "raised"
                  /\ UNCHANGED <<result, tempDir>>
             ELSE ScriptCall(parsed.workflow_id, parsed.args, t, script_exists,
                             runtime_exists)
    /\ UNCHANGED <<code, rejections, child, returncode, pipeOut, pipeErr, now, Unused>>

\* run_custom_workflow_code up to the call of _execute
RunCustomWorkflowCode ==
    /\ pc = "idle"
    /\ \E source \in CustomSources, t \in TimeoutInputs, runtime_exists \in BOOLEAN :
         /\ code' = source
         /\ rejections' = validate_custom_workflow_code(source)
         /\ req' = [entry |-> "custom", workflow_id |-> "", timeout_seconds |-> t]
         /\ IF custom_gate(validate_custom_workflow_code(source))
            THEN IF runtime_exists
                 THEN /\ tempDir' = "exists"
                      /\ pc' = "spawning"
                      /\ UNCHANGED <<result, via>>
                 ELSE \* shutil.copytree raises; the with-block removes the directory
                      /\ via' = "FileNotFoundError"
                      /\ tempDir' = "removed"
                      /\ pc' = "raised"
                      /\ UNCHANGED result
            ELSE /\ result' = rejected_result(validate_custom_workflow_code(source))
                 /\ via' = "rejected"
                 /\ pc' = "done"
                 /\ UNCHANGED tempDir
    /\ UNCHANGED <<child, returncode, pipeOut, pipeErr, now, Unused>>

\* _execute: create_subprocess_exec succeeds
SpawnOk ==
    /\ pc = "spawning"
    /\ child' = "running"
    /\ pc' = "waiting"
    /\ UNCHANGED <<code, rejections, req, tempDir, returncode, pipeOut, pipeErr, now, result,
                   via, Unused>>

\* _execute: create_subprocess_exec raises; the with-block removes the directory
SpawnFail ==
    /\ pc = "spawning"
    /\ result' = error_result("runner failed to start subprocess: <exc>", 70, elapsed_ms(now))
    /\ via' = "spawn_failed"
    /\ tempDir' = "removed"
    /\ pc' = "done"
    /\ UNCHANGED <<code, rejections, req, child, returncode, pipeOut, pipeErr, now,
                   Unused>>

\* the child writes to its stdout
ChildWriteOut ==
    /\ child = "running"
    /\ Len(pipeOut) < MaxOutChunks
    /\ \E chunk \in OutChunks : pipeOut' = Append(pipeOut, chunk)
    /\ UNCHANGED <<code, rejections, pc, req, tempDir, child, returncode, pipeErr, now,
                   result, via, Unused>>

\* the child writes to its stderr
ChildWriteErr ==
    /\ child = "running"
    /\ Len(pipeErr) < MaxErrChunks
    /\ \E chunk \in ErrChunks : pipeErr' = Append(pipeErr, chunk)
    /\ UNCHANGED <<code, rejections, pc, req, tempDir, child, returncode, pipeOut, now,
                   result, via, Unused>>

\* the child ends by itself, which closes its ends of the pipes
ChildExit ==
    /\ child = "running"
    /\ \E rc \in ExitCodes : returncode' = rc
    /\ child' = "exited"
    /\ UNCHANGED <<code, rejections, pc, req, tempDir, pipeOut, pipeErr, now, result, via,
                   Unused>>

\* a second passes while wait_for(process.communicate(), timeout) is pending
Tick ==
    /\ pc = "waiting"
    /\ now < normalize_timeout(req.timeout_seconds)
    /\ now' = now + 1
    /\ UNCHANGED <<code, rejections, pc, req, tempDir, child, returncode, pipeOut, pipeErr,
                   result, via, Unused>>

\* communicate() saw both pipes closed and the child reaped before the timeout
\* fired: the normal path of _execute, then the cleanup of the caller
CommunicateReturns ==
    /\ pc = "waiting"
    /\ child = "exited"
    /\ result' = completed_result(Concat(pipeOut), Concat(pipeErr), returncode, now)
    /\ via' = "completed"
    /\ pipeOut' = <<>>
    /\ pipeErr' = <<>>
    /\ tempDir' = "removed"
    /\ pc' = "done"
    /\ UNCHANGED <<code, rejections, req, child, returncode, now, Unused>>

\* wait_for raises TimeoutError: the pending communicate() is cancelled, which
\* discards the writes it had already read, and process.kill() is called
TimeoutKill ==
    /\ pc = "waiting"
    /\ now = normalize_timeout(req.timeout_seconds)
    /\ \E i \in 0..Len(pipeOut) : pipeOut' = Drop(pipeOut, i)
    /\ \E j \in 0..Len(pipeErr) : pipeErr' = Drop(pipeErr, j)
    /\ child' = IF child = "running" THEN "killed" ELSE child
    /\ returncode' = IF child = "running" THEN SIGKILL_RETURNCODE ELSE returncode
    /\ pc' = "draining"
    /\ UNCHANGED <<code, rejections, req, tempDir, now, result, via, Unused>>

\* wait_for raises TimeoutError just after the child ended and its transport was
\* closed: process.kill() raises ProcessLookupError, which nothing catches; the
\* finally clause and the with-block of the caller still run
TimeoutKillRaises ==
    /\ pc = "waiting"
    /\ now = normalize_timeout(req.timeout_seconds)
    /\ child = "exited"
    /\ via' = "ProcessLookupError"
    /\ pipeOut' = <<>>
    /\ pipeErr' = <<>>
    /\ tempDir' = "removed"
    /\ pc' = "raised"
    /\ UNCHANGED <<code, rejections, req, child, returncode, now, result, Unused>>

\* a mutant of DrainAndReturn: the directory outlives the timeout path
DrainAndReturn_keeps_dir ==
    /\ pc = "draining"
    /\ child \in {"killed", "exited"}
    /\ result' = timeout_result(Concat(pipeOut), Concat(pipeErr), now)
    /\ via' = "timeout"
    /\ pipeOut' = <<>>
    /\ pipeErr' = <<>>
    /\ pc' = "done"
    /\ UNCHANGED <<code, rejections, req, tempDir, child, returncode, now, Unused>>

\* the second communicate() returns what is left in the pipes of the dead child,
\* the timeout result is built and the caller cleans up
DrainAndReturn ==
    /\ pc = "draining"
    /\ child \in {"killed", "exited"}
    /\ result' = timeout_result(Concat(pipeOut), Concat(pipeErr), now)
    /\ via' = "timeout"
    /\ pipeOut' = <<>>
    /\ pipeErr' = <<>>
    /\ tempDir' = "removed"
    /\ pc' = "done"
    /\ UNCHANGED <<code, rejections, req, child, returncode, now, Unused>>

Next ==
    \/ RunWorkflowScript
    \/ RunWorkflowCliCommand
    \/ RunCustomWorkflowCode
    \/ SpawnOk
    \/ SpawnFail
    \/ ChildWriteOut
    \/ ChildWriteErr
    \/ ChildExit
    \/ Tick
    \/ CommunicateReturns
    \/ TimeoutKill
    \/ TimeoutKillRaises
    \/ DrainAndReturn

Spec == Init /\ [][Next]_vars

\* the event loop runs every callback that is ready, and time passes; nothing is
\* assumed about what the child does
FairSpec ==
    /\ Spec
    /\ WF_vars(SpawnOk \/ SpawnFail)
    /\ WF_vars(Tick)
    /\ WF_vars(CommunicateReturns \/ TimeoutKill \/ TimeoutKillRaises)
    /\ WF_vars(DrainAndReturn)

(***************************************************************************)
(* Claims about the runner (checked under Spec and FairSpec).              *)
(***************************************************************************)
Returned == pc = "done"

\* C1: every result the runner returns has success true exactly when exit_code
\* is 0 and safety_rejections is empty.
C1_SuccessIffCleanExit ==
    Returned =>
        (result.success <=> (result.exit_code = 0 /\ result.safety_rejections = <<>>))

\* a child that ended with 0 and a child that did not have both been reported
C1_Witness ==
    /\ Returned /\ via = "completed"
    /\ result.exit_code = 0 /\ result.success /\ result.safety_rejections = <<>>

\* C2 (as claimed): a result with exit_code 124 has "execution timed out" in its
\* stderr; 124 is never reported for a child that ended by itself.
C2_Exit124OnlyOnTimeout ==
    (Returned /\ result.exit_code = TIMEOUT_EXIT_CODE) =>
        /\ "execution timed out" \in Range(result.stderr)
        /\ via = "timeout"

\* the stderr of the timeout result, from the bytes the drain returned
TimedOutStderr(stderr_bytes) ==
    LET captured == decode_and_cap(stderr_bytes, StderrMaxBytes, "stderr")
    IN  IF captured = <<>> THEN <<"execution timed out">>
        ELSE captured \o <<"\n", "execution timed out">>

\* C3 (as claimed): when the timeout elapses with the child still running the
\* runner kills it, then drains the pipes, and only then returns success=false,
\* exit_code=124, result_json=null and stderr = captured stderr, new line,
\* "execution timed out" (or that message alone); and every invocation that
\* waits for a child eventually returns a result.
C3_TimeoutKillDrainReturn ==
    /\ [][(pc = "waiting" /\ child = "running" /\ pc' # "waiting")
             => (pc' = "draining" /\ child' = "killed")]_vars
    /\ [][(via # "timeout" /\ via' = "timeout")
             => /\ pc = "draining" /\ child # "running"
                /\ pc' = "done" /\ pipeOut' = <<>> /\ pipeErr' = <<>>
                /\ result'.success = FALSE
                /\ result'.exit_code = TIMEOUT_EXIT_CODE
                /\ result'.result_json = None
                /\ result'.stderr = TimedOutStderr(Concat(pipeErr))]_vars
    /\ (pc = "waiting" ~> Returned)

\* C10: run_custom_workflow_code validates first: rejected code gets no temporary
\* directory and no child, and the result is success=false, exit_code=1, the
\* fixed stderr and the validator's list; a child exists only for code the
\* validator accepts.
C10_ValidatorFirst ==
    (req # <<>> /\ req.entry = "custom") =>
        /\ validate_custom_workflow_code(code) # <<>> =>
              /\ Returned
              /\ tempDir = "none"
              /\ child = "none"
              /\ result.success = FALSE
              /\ result.exit_code = 1
              /\ result.stderr = <<"custom workflow code rejected by safety policy">>
              /\ result.safety_rejections = validate_custom_workflow_code(code)
        /\ child # "none" => validate_custom_workflow_code(code) = <<>>

\* code with two distinct rejections has been refused
C10_Witness ==
    /\ Returned /\ via = "rejected"
    /\ req.entry = "custom"
    /\ Len(result.safety_rejections) >= 2

(***************************************************************************)
(* _extract_result_json called on its own (SpecExtract).                   *)
(***************************************************************************)
\* the lines a stdout is made of
StdoutLines ==
    { <<"h">>, <<>>, RESULT_MARKER \o <<"1">>, RESULT_MARKER \o <<"2">>,
      RESULT_MARKER \o <<"{">> }

\* the text whose lines are `lines`, each ended by "\n" but, unless `trailing`,
\* the last one
RECURSIVE StdoutOf(_, _)
StdoutOf(lines, trailing) ==
    IF lines = <<>> THEN <<>>
    ELSE IF Len(lines) = 1 THEN lines[1] \o (IF trailing THEN <<"\n">> ELSE <<>>)
    ELSE lines[1] \o <<"\n">> \o StdoutOf(Tail(lines), trailing)

\* a last line that is empty exists only through the "\n" that ends it
ExtractCalls ==
    { [lines |-> l, trailing |-> t] :
        l \in SeqsUpTo(StdoutLines, MaxLines), t \in BOOLEAN } \
    { c \in [lines : SeqsUpTo(StdoutLines, MaxLines), trailing : BOOLEAN] :
        ~c.trailing /\ c.lines # <<>> /\ c.lines[Len(c.lines)] = <<>> }

InitExtract ==
    /\ call \in ExtractCalls
    /\ ret = <<>>
    /\ fpc = "input"
    /\ ParkedSafety
    /\ ParkedCli
    /\ ParkedRunner

Extract ==
    /\ fpc = "input"
    /\ ret' = extract_result_json(StdoutOf(call.lines, call.trailing))
    /\ fpc' = "returned"
    /\ UNCHANGED <<call, safetyVars, cliVars, runnerVars>>

NextExtract == Extract

SpecExtract == InitExtract /\ [][NextExtract]_vars

\* the list `lines` without its k-th element
Without(lines, k) ==
    [i \in 1..(Len(lines) - 1) |-> IF i < k THEN lines[i] ELSE lines[i + 1]]

MarkerLines(lines) == { i \in 1..Len(lines) : StartsWith(lines[i], RESULT_MARKER) }

LastMarker(lines) == CHOOSE k \in MarkerLines(lines) : \A j \in MarkerLines(lines) : j <= k

\* C11: when some line of stdout starts with the marker, the last such line is
\* used: result_json is its parsed payload (null when the payload is malformed),
\* exactly that line is removed, and every other line, earlier marker lines
\* included, stays in order.
C11_LastMarkerLineWins ==
    (fpc = "returned" /\ MarkerLines(call.lines) # {}) =>
        LET k == LastMarker(call.lines)
            payload == json_loads(Drop(call.lines[k], Len(RESULT_MARKER)))
        IN  /\ ret.marker_found
            /\ ret.result_json = (IF payload.ok THEN payload.value ELSE None)
            /\ ret.stdout = StdoutOf(Without(call.lines, k), FALSE)

\* the example of the claim: "h\n__RESULT_JSON__=1\n__RESULT_JSON__=2\n"
C11_Witness ==
    /\ fpc = "returned"
    /\ call = [lines |-> <<<<"h">>, RESULT_MARKER \o <<"1">>, RESULT_MARKER \o <<"2">>>>,
               trailing |-> TRUE]
    /\ ret.result_json = <<"2">>
    /\ ret.stdout = <<"h", "\n">> \o RESULT_MARKER \o <<"1">>

(***************************************************************************)
(* More claims about the runner (checked under Spec and FairSpec).         *)
(***************************************************************************)
\* the step on which _execute returns on its normal path
ReturnsCompleted == via # "completed" /\ via' = "completed"

\* C12 (as claimed): for a child that completed with no marker line on stdout,
\* a stripped stdout that parses as JSON becomes result_json and "result marker
\* not found" is not appended; otherwise result_json is null, stdout is the
\* child's (capped) stdout and "result marker not found" is appended; and
\* exit_code is the child's exit code whatever the marker handling did.
C12_NoMarkerFallback ==
    [][ReturnsCompleted =>
          LET full_stdout == decode_lossy(Concat(pipeOut))
              stripped == Strip(full_stdout)
          IN  /\ result'.exit_code = returncode
              /\ MarkerLines(SplitLines(full_stdout)) = {} =>
                    IF stripped # <<>> /\ json_loads(stripped).ok
                    THEN /\ result'.result_json = json_loads(stripped).value
                         /\ "result marker not found" \notin Range(result'.stderr)
                    ELSE /\ result'.result_json = None
                         /\ result'.stdout = cap_text(full_stdout, StdoutMaxBytes, "stdout")
                         /\ "result marker not found" \in Range(result'.stderr)]_vars

\* the file run_workflow_script copies and runs for a workflow
ScriptOf(workflow_id) == Join(src_root, script_path(workflow_id))

\* a workflow of the manifest whose script_path leaves the source root
ScriptOutside(workflow_id) ==
    /\ workflow_id \in DOMAIN WorkflowIndex
    /\ script_path(workflow_id) # NoPath
    /\ ~IsUnder(src_root, ScriptOf(workflow_id))

\* C19 (as claimed): a workflow whose script_path resolves outside src_root, an
\* absolute path or a relative one with "..", is refused at invocation time with
\* an exit-2 result; nothing is copied and no child is spawned.
C19_ScriptUnderSrcRoot ==
    (pc # "idle" /\ req.entry = "script" /\ req.workflow_id \notin NonMappingSchemas
       /\ ScriptOutside(req.workflow_id)) =>
        /\ pc = "done"
        /\ via = "error_result"
        /\ result.exit_code = 2
        /\ child = "none"
        /\ tempDir = "none"

\* C20 (as claimed): no failure before the child is spawned makes
\* run_workflow_cli_command or run_workflow_script raise: each returns an
\* ExecutionResult with success false, with exit code 2 for argument and
\* manifest errors.
C20_PreSpawnFailuresReturn ==
    (pc \notin {"idle", "spawning"} /\ req.entry \in {"script", "cli"} /\ child = "none") =>
        /\ pc = "done"
        /\ ~result.success
        /\ via = "error_result" => result.exit_code = 2

\* the invocation has ended: it returned a result or an exception left it
Ended == pc \in {"done", "raised"}

\* the exits of an invocation that got past validation
PastValidation ==
    via \in {"completed", "timeout", "spawn_failed", "ProcessLookupError", "FileNotFoundError"}

\* C21: an invocation that gets past validation works in a temporary directory,
\* which exists for as long as its child can run and no longer exists once the
\* invocation has returned or raised: after a normal child exit, a timeout kill,
\* a spawn failure and a failure while copying; an invocation refused by
\* validation never creates one.
C21_TempDirReleased ==
    /\ Ended => tempDir \in {"none", "removed"}
    /\ (Ended /\ PastValidation) => tempDir = "removed"
    /\ (Ended /\ ~PastValidation) => tempDir = "none"
    /\ pc \in {"spawning", "waiting", "draining"} => tempDir = "exists"
    /\ child # "none" => tempDir # "none"

\* the child was killed at the timeout and the directory is gone
C21_Witness ==
    /\ pc = "done"
    /\ via = "timeout"
    /\ child = "killed"
    /\ tempDir = "removed"

(***************************************************************************)
(* _cap_text and _decode_and_cap called on their own (SpecCap).            *)
(***************************************************************************)
\* characters of one, two and three bytes
StreamChars == {"e", "u00E9", "uFFFD"}

\* a stream is given as text to _cap_text and as its bytes to _decode_and_cap
CapCalls ==
    [fn : {"cap_text", "decode_and_cap"},
     value : SeqsUpTo(StreamChars, MaxStreamChars),
     max_bytes : 1..MaxCap,
     stream_name : {"stdout", "stderr"}]

InitCap ==
    /\ call \in CapCalls
    /\ ret = <<>>
    /\ fpc = "input"
    /\ ParkedSafety
    /\ ParkedCli
    /\ ParkedRunner

CapText ==
    /\ fpc = "input"
    /\ call.fn = "cap_text"
    /\ ret' = cap_text(call.value, call.max_bytes, call.stream_name)
    /\ fpc' = "returned"
    /\ UNCHANGED <<call, safetyVars, cliVars, runnerVars>>

DecodeAndCap ==
    /\ fpc = "input"
    /\ call.fn = "decode_and_cap"
    /\ ret' = decode_and_cap(Encode(call.value), call.max_bytes, call.stream_name)
    /\ fpc' = "returned"
    /\ UNCHANGED <<call, safetyVars, cliVars, runnerVars>>

NextCap == CapText \/ DecodeAndCap

SpecCap == InitCap /\ [][NextCap]_vars

\* C13 (as claimed): a stream longer than the cap comes back as text of exactly
\* cap bytes followed by "\n" and the truncation line, also when the cut falls
\* inside a multi-byte character; a stream of at most cap bytes comes back
\* unchanged.
C13_TruncatedLengthExact ==
    fpc = "returned" =>
        IF Len(Encode(call.value)) > call.max_bytes
        THEN /\ Len(ret) >= 2
             /\ SubSeq(ret, Len(ret) - 1, Len(ret)) = <<"\n", TruncationNote(call.stream_name)>>
             /\ Len(Encode(SubSeq(ret, 1, Len(ret) - 2))) = call.max_bytes
        ELSE ret = call.value

(***************************************************************************)
(* catalog.py: the capability catalog.  A manifest is three sections of    *)
(* entries [id, description]; an entry without the key "id" has id NoId.   *)
(* A dict is the sequence of its values in insertion order.  A score is    *)
(* kept as twice its value, so that 1.5 is 3.                              *)
(***************************************************************************)
MaxEntries == 3

\* stands for the 50 of search and MAX_CAPABILITY_LIMIT
MaxHitLimit == 2

NoId == ""

Kinds == <<"workflow", "runtime_tool", "execution_pattern">>

SectionOf(raw, kind) ==
    CASE kind = "workflow" -> raw.workflows
      [] kind = "runtime_tool" -> raw.runtime_tools
      [] kind = "execution_pattern" -> raw.execution_patterns

CapabilityDoc(id, kind, description) == [id |-> id, kind |-> kind, description |-> description]

entry_to_doc(entry, kind) == CapabilityDoc(entry.id, kind, entry.description)

\* docs[capability_id] = doc
SetItem(docs, doc) ==
    IF \E i \in 1..Len(docs) : docs[i].id = doc.id
    THEN [i \in 1..Len(docs) |-> IF docs[i].id = doc.id THEN doc ELSE docs[i]]
    ELSE Append(docs, doc)

\* one loop of _load_manifest over a section
RECURSIVE LoadSection(_, _, _)
LoadSection(docs, entries, kind) ==
    IF entries = <<>> THEN docs
    ELSE LoadSection(SetItem(docs, entry_to_doc(Head(entries), kind)), Tail(entries), kind)

\* CapabilityCatalog(manifest_path): the catalog, or the KeyError of workflow["id"]
load_manifest(raw) ==
    IF \E k \in 1..3 : \E i \in 1..Len(SectionOf(raw, Kinds[k])) :
          SectionOf(raw, Kinds[k])[i].id = NoId
    THEN [status |-> "raised", docs |-> <<>>]
    ELSE [status |-> "loaded",
          docs |-> LoadSection(LoadSection(LoadSection(<<>>, raw.workflows, "workflow"),
                                           raw.runtime_tools, "runtime_tool"),
                               raw.execution_patterns, "execution_pattern")]

\* _tokenize of the corpus of a document
DocTokens(doc) == {doc.id, doc.kind, doc.description} \ {""}

\* query_lc in doc.id.lower(), for the ids and queries of the model
IsSubstring(query_lc, id) == query_lc = id \/ (query_lc \in {"a", "b"} /\ id = "ab")

\* twice _score_doc
score_doc(doc, query) ==
    IF query = "" THEN 2
    ELSE (IF query \in DocTokens(doc) THEN 2 ELSE 0)
         + (IF query = doc.id THEN 6 ELSE 0)
         + (IF IsSubstring(query, doc.id) THEN 3 ELSE 0)

\* token overlap 1.0, exact id 3.0, partial id 1.5
MaxScore == 2 + 6 + 3

CapabilityHit(id, kind) == [id |-> id, kind |-> kind]

doc_to_hit(doc) ==
    CapabilityHit(doc.id,
                  IF doc.kind \in {"workflow", "runtime_tool", "execution_pattern"}
                  THEN doc.kind ELSE "execution_pattern")

\* scored_hits.sort(key=score, reverse=True): stable, highest score first
RECURSIVE SortedByScore(_, _, _)
SortedByScore(docs, query, score) ==
    IF score = 0 THEN <<>>
    ELSE SelectSeq(docs, LAMBDA d : score_doc(d, query) = score)
         \o SortedByScore(docs, query, score - 1)

Min(a, b) == IF a <= b THEN a ELSE b

Max(a, b) == IF a >= b THEN a ELSE b

\* CapabilityCatalog.search
search(docs, query, limit) ==
    LET normalized_limit == Min(Max(1, limit), MaxHitLimit)
        scored_hits == SortedByScore(docs, query, MaxScore)
        kept == SubSeq(scored_hits, 1, Min(normalized_limit, Len(scored_hits)))
    IN  [i \in 1..Len(kept) |-> doc_to_hit(kept[i])]

\* CapabilityCatalog.read: the document, or None
read(docs, capability_id) ==
    IF \E i \in 1..Len(docs) : docs[i].id = capability_id
    THEN docs[CHOOSE i \in 1..Len(docs) : docs[i].id = capability_id]
    ELSE None

(***************************************************************************)
(* SpecCatalog: a manifest is loaded, the capabilities are listed and one  *)
(* capability is read.                                                     *)
(***************************************************************************)
CapabilityIds == {"a", "b", "ab"}

Descriptions == {"", "b"}

Entries == [id : CapabilityIds \cup {NoId}, description : Descriptions]

Manifests ==
    { m \in [workflows : SeqsUpTo(Entries, MaxEntries),
             runtime_tools : SeqsUpTo(Entries, MaxEntries),
             execution_patterns : SeqsUpTo(Entries, MaxEntries)] :
        Len(m.workflows) + Len(m.runtime_tools) + Len(m.execution_patterns) <= MaxEntries }

Queries == {"", "a", "b"}

\* the limits a caller passes, the default included
Limits == 0..(MaxHitLimit + 2)

InitCatalog ==
    /\ call \in [manifest : Manifests]
    /\ ret = <<>>
    /\ fpc = "input"
    /\ ParkedSafety
    /\ ParkedCli
    /\ ParkedRunner

LoadManifest ==
    /\ fpc = "input"
    /\ LET catalog == load_manifest(call.manifest)
       IN  /\ ret' = [catalog |-> catalog, query |-> "", limit |-> 0, hits |-> <<>>,
                      capability_id |-> "", doc |-> None]
           /\ fpc' = catalog.status
    /\ UNCHANGED <<call, safetyVars, cliVars, runnerVars>>

SearchCapabilities ==
    /\ fpc = "loaded"
    /\ \E query \in Queries, limit \in Limits :
         ret' = [ret EXCEPT !.query = query, !.limit = limit,
                            !.hits = search(ret.catalog.docs, query, limit)]
    /\ fpc' = "listed"
    /\ UNCHANGED <<call, safetyVars, cliVars, runnerVars>>

ReadCapability ==
    /\ fpc = "listed"
    /\ \E capability_id \in CapabilityIds :
         ret' = [ret EXCEPT !.capability_id = capability_id,
                            !.doc = read(ret.catalog.docs, capability_id)]
    /\ fpc' = "read"
    /\ UNCHANGED <<call, safetyVars, cliVars, runnerVars>>

NextCatalog == LoadManifest \/ SearchCapabilities \/ ReadCapability

SpecCatalog == InitCatalog /\ [][NextCatalog]_vars

\* the entries of a manifest, each with the kind of its section, in file order
AllEntries(raw) ==
    [i \in 1..Len(raw.workflows) |-> entry_to_doc(raw.workflows[i], "workflow")]
    \o [i \in 1..Len(raw.runtime_tools) |-> entry_to_doc(raw.runtime_tools[i], "runtime_tool")]
    \o [i \in 1..Len(raw.execution_patterns) |->
          entry_to_doc(raw.execution_patterns[i], "execution_pattern")]

HasDuplicateId(raw) ==
    \E i, j \in 1..Len(AllEntries(raw)) : i # j /\ AllEntries(raw)[i].id = AllEntries(raw)[j].id

\* C17 (as claimed): a manifest in which an id occurs twice, within a section or
\* across sections, fails to load; so in every loaded catalog each manifest
\* entry has exactly one document and none was replaced by another.
C17_DuplicateIdsFailAtLoad ==
    /\ (fpc # "input" /\ HasDuplicateId(call.manifest)) => ret.catalog.status = "raised"
    /\ fpc \in {"loaded", "listed", "read"} =>
          LET entries == AllEntries(call.manifest)
          IN  /\ Len(ret.catalog.docs) = Len(entries)
              /\ \A i \in 1..Len(entries) :
                    \E j \in 1..Len(ret.catalog.docs) : ret.catalog.docs[j] = entries[i]

\* the listing: a search with the empty query
Listed == fpc \in {"listed", "read"} /\ ret.query = ""

\* C18 (as claimed): the listing returns one hit for every document of the
\* catalog, however many there are, and read(hit.id) returns a document with
\* the id and the kind of the hit.
C18_ListingCoversCatalog ==
    Listed =>
        /\ Len(ret.hits) = Len(ret.catalog.docs)
        /\ \A i \in 1..Len(ret.catalog.docs) :
              \E k \in 1..Len(ret.hits) : ret.hits[k].id = ret.catalog.docs[i].id
        /\ \A k \in 1..Len(ret.hits) :
              LET doc == read(ret.catalog.docs, ret.hits[k].id)
              IN  doc # None /\ doc.id = ret.hits[k].id /\ doc.kind = ret.hits[k].kind

(***************************************************************************)
(* runner.py: the environment of a child.  An environment is a function    *)
(* from the names that are set to their values.                            *)
(***************************************************************************)
ENV_ALLOWLIST == {"HOME", "LANG", "LC_ALL", "LC_CTYPE", "PATH", "TZ", "ZOEKT_API_URL"}

PinnedNames == {"PYTHONUNBUFFERED", "PYTHONDONTWRITEBYTECODE"}

\* a mutant of build_environment: the parent's environment is passed on whole
build_environment_inherit(environ) ==
    [k \in DOMAIN environ \cup PinnedNames |-> IF k \in PinnedNames THEN "1" ELSE environ[k]]

\* ExecutionRunner._build_environment: `if value:` drops a variable set to ""
build_environment(environ) ==
    LET kept == { k \in ENV_ALLOWLIST \cap DOMAIN environ : environ[k] # "" }
    IN  [k \in kept \cup PinnedNames |-> IF k \in PinnedNames THEN "1" ELSE environ[k]]

(***************************************************************************)
(* SpecEnv: two parents, each spawning a child.                            *)
(***************************************************************************)
EnvNames == {"HOME", "TZ", "AWS_SECRET_ACCESS_KEY", "PYTHONUNBUFFERED"}

EnvValues == {"", "v", "w"}

Environs == UNION { [names -> EnvValues] : names \in SUBSET EnvNames }

InitEnv ==
    /\ call \in [environ : Environs, other : Environs]
    /\ ret = <<>>
    /\ fpc = "input"
    /\ ParkedSafety
    /\ ParkedCli
    /\ ParkedRunner

\* create_subprocess_exec(..., env=self._build_environment()) in each parent
SpawnWithEnvironment ==
    /\ fpc = "input"
    /\ ret' = [env |-> build_environment(call.environ),
               other |-> build_environment(call.other)]
    /\ fpc' = "spawned"
    /\ UNCHANGED <<call, safetyVars, cliVars, runnerVars>>

NextEnv == SpawnWithEnvironment

SpecEnv == InitEnv /\ [][NextEnv]_vars

\* two environments agree on every allow-listed name
SameOnAllowlist(e1, e2) ==
    \A k \in ENV_ALLOWLIST :
        /\ (k \in DOMAIN e1) = (k \in DOMAIN e2)
        /\ k \in DOMAIN e1 => e1[k] = e2[k]

\* C22: the environment of a child has only allow-listed names and the two
\* pinned names, both "1"; an allow-listed value is the parent's; parents that
\* differ only outside the allow-list give their children equal environments.
C22_ScrubbedEnvironment ==
    fpc = "spawned" =>
        /\ DOMAIN ret.env \subseteq ENV_ALLOWLIST \cup PinnedNames
        /\ \A k \in PinnedNames : k \in DOMAIN ret.env /\ ret.env[k] = "1"
        /\ \A k \in DOMAIN ret.env \cap ENV_ALLOWLIST :
              k \in DOMAIN call.environ /\ ret.env[k] = call.environ[k]
        /\ SameOnAllowlist(call.environ, call.other) => ret.env = ret.other

\* two parents that agree on HOME and differ in a secret and in PYTHONUNBUFFERED
C22_Witness ==
    /\ fpc = "spawned"
    /\ call.environ # call.other
    /\ SameOnAllowlist(call.environ, call.other)
    /\ "AWS_SECRET_ACCESS_KEY" \in DOMAIN call.environ
    /\ "PYTHONUNBUFFERED" \in DOMAIN call.other /\ call.other["PYTHONUNBUFFERED"] = "w"
    /\ "HOME" \in DOMAIN ret.env

(***************************************************************************)
(* SpecConcurrent: several invocations of run_workflow_script on one       *)
(* runner, interleaved by the event loop.  The file system is shared: it   *)
(* maps the name of a directory to the script copied into it.  The script  *)
(* of a workflow prints a result of its own.                               *)
(***************************************************************************)
NumInvocations == 2

MaxSuffix == 2

Invocations == 1..NumInvocations

ConcurrentWorkflows == {"symbol_usage", "escape"}

\* a mutant of mkdtemp: the name is the prefix, with no random part
mkdtemp_prefix_only(fs, prefix) == { [prefix |-> prefix, suffix |-> 1] }

\* tempfile.mkdtemp(prefix=...): a name that no existing directory has
mkdtemp(fs, prefix) ==
    { [prefix |-> prefix, suffix |-> n] : n \in 1..MaxSuffix } \ DOMAIN fs

\* what the child prints when it runs the script found in its directory, and
\* its exit code; "missing" when the file is not there
ChildOutput(script) ==
    CASE script = "symbol_usage" -> [out |-> RESULT_MARKER \o <<"1">>, err |-> <<>>, rc |-> 0]
      [] script = "escape" -> [out |-> RESULT_MARKER \o <<"2">>, err |-> <<>>, rc |-> 0]
      [] OTHER -> [out |-> <<>>, err |-> <<"e">>, rc |-> 1]

\* fs without the directory `name`
RemoveTree(fs, name) == [d \in DOMAIN fs \ {name} |-> fs[d]]

Invocation(ipc, dir, ichild, out, err, rc, res) ==
    [pc |-> ipc, dir |-> dir, child |-> ichild, out |-> out, err |-> err,
     returncode |-> rc, result |-> res]

NoDir == [prefix |-> "", suffix |-> 0]

InitConcurrent ==
    /\ call \in [workflows : [Invocations -> ConcurrentWorkflows]]
    /\ ret = [fs |-> <<>>,
              workflow_index |-> DOMAIN WorkflowIndex,
              inv |-> [i \in Invocations |->
                         Invocation("idle", NoDir, "none", <<>>, <<>>, 0, None)]]
    /\ fpc = "input"
    /\ ParkedSafety
    /\ ParkedCli
    /\ ParkedRunner

\* run_workflow_script up to the await of create_subprocess_exec: the directory
\* is made and the script is copied into it
ConcurrentStart(i) ==
    /\ ret.inv[i].pc = "idle"
    /\ call.workflows[i] \in ret.workflow_index
    /\ \E name \in mkdtemp(ret.fs, call.workflows[i]) :
         ret' = [ret EXCEPT
                   !.fs = [d \in DOMAIN ret.fs \cup {name} |->
                             IF d = name THEN call.workflows[i] ELSE ret.fs[d]],
                   !.inv[i] = Invocation("spawning", name, "none", <<>>, <<>>, 0, None)]
    /\ UNCHANGED <<call, fpc, safetyVars, cliVars, runnerVars>>

\* create_subprocess_exec returns: the child runs
ConcurrentSpawn(i) ==
    /\ ret.inv[i].pc = "spawning"
    /\ ret' = [ret EXCEPT !.inv[i].pc = "waiting", !.inv[i].child = "running"]
    /\ UNCHANGED <<call, fpc, safetyVars, cliVars, runnerVars>>

\* the child opens workflow_script.py of its directory, runs it and ends
ConcurrentChildRuns(i) ==
    /\ ret.inv[i].child = "running"
    /\ LET dir == ret.inv[i].dir
           ran == ChildOutput(IF dir \in DOMAIN ret.fs THEN ret.fs[dir] ELSE "missing")
       IN  ret' = [ret EXCEPT !.inv[i].child = "exited", !.inv[i].out = ran.out,
                              !.inv[i].err = ran.err, !.inv[i].returncode = ran.rc]
    /\ UNCHANGED <<call, fpc, safetyVars, cliVars, runnerVars>>

\* communicate() returns, the result is built and the with-block removes the
\* directory of the invocation
ConcurrentReturn(i) ==
    /\ ret.inv[i].pc = "waiting"
    /\ ret.inv[i].child = "exited"
    /\ ret' = [ret EXCEPT
                 !.fs = RemoveTree(ret.fs, ret.inv[i].dir),
                 !.inv[i].pc = "done",
                 !.inv[i].result = completed_result(ret.inv[i].out, ret.inv[i].err,
                                                    ret.inv[i].returncode, 0)]
    /\ UNCHANGED <<call, fpc, safetyVars, cliVars, runnerVars>>

NextConcurrent ==
    \E i \in Invocations :
        \/ ConcurrentStart(i)
        \/ ConcurrentSpawn(i)
        \/ ConcurrentChildRuns(i)
        \/ ConcurrentReturn(i)

SpecConcurrent == InitConcurrent /\ [][NextConcurrent]_vars

\* the result of run_workflow_script for a workflow when nothing else runs
Alone(workflow_id) ==
    LET ran == ChildOutput(workflow_id)
    IN  completed_result(ran.out, ran.err, ran.rc, 0)

\* the invocation holds a directory
HoldsDir(i) == ret.inv[i].pc \in {"spawning", "waiting"}

\* C23: in every interleaving of concurrent invocations, of the same workflow
\* too, each invocation has a directory of its own that holds its own script
\* until it returns, the shared index of the runner stays as constructed, and
\* the result of each invocation is the one it gives when it runs alone.
C23_InvocationsIsolated ==
    /\ ret.workflow_index = DOMAIN WorkflowIndex
    /\ \A i \in Invocations :
          /\ HoldsDir(i) =>
                /\ ret.inv[i].dir \in DOMAIN ret.fs
                /\ ret.fs[ret.inv[i].dir] = call.workflows[i]
          /\ \A j \in Invocations \ {i} :
                (HoldsDir(i) /\ HoldsDir(j)) => ret.inv[i].dir # ret.inv[j].dir
          /\ ret.inv[i].pc = "done" => ret.inv[i].result = Alone(call.workflows[i])

\* two invocations of the same workflow: one has returned and removed its
\* directory while the child of the other, started first, is still running
C23_Witness ==
    /\ call.workflows[1] = call.workflows[2]
    /\ ret.inv[1].pc = "done"
    /\ ret.inv[1].result.success
    /\ ret.inv[2].pc = "waiting" /\ ret.inv[2].child = "running"
    /\ ret.inv[2].dir \in DOMAIN ret.fs

(***************************************************************************)
(* zoekt_tools.py: the runtime wrappers of the backend.  A file of the     *)
(* backend is the sequence of its lines; line n of the files of the model  *)
(* is the digit n.                                                         *)
(***************************************************************************)
MAX_SEARCH_LIMIT == 25

MAX_CONTEXT_LINES == 3

\* the constant the tests import, which zoekt_tools.py does not define
MaxFetchWindowLines == 2

MaxFileLines == 4

Digit(n) == CASE n = 1 -> "1" [] n = 2 -> "2" [] n = 3 -> "3" [] n = 4 -> "4" [] OTHER -> "5"

\* _extract_lines_from_html(response.text) for a file of n lines
FileLines(n) == [i \in 1..n |-> <<Digit(i)>>]

\* the outcome of a wrapper: the requests it sent, and its value or the error raised
Outcome(requests, raised, value) == [requests |-> requests, raised |-> raised, value |-> value]

\* ZoektRuntime.fetch_content; status is what raise_for_status finds
fetch_content(start_line, end_line, all_lines, status) ==
    LET sent == << [url |-> "/print", ctx |-> 0, num |-> 0] >>
        start_index == start_line - 1
        end_index == Min(Len(all_lines), end_line)
    IN  IF status # "ok" THEN Outcome(sent, "HTTPError", <<>>)
        ELSE IF start_line <= 0 \/ end_line <= 0 \/ end_line < start_line
        THEN Outcome(sent, "ZoektRuntimeError: invalid line range", <<>>)
        ELSE IF all_lines = <<>>
        THEN Outcome(sent, "ZoektRuntimeError: file not found or unreadable", <<>>)
        ELSE IF start_index >= Len(all_lines) THEN Outcome(sent, "", <<>>)
        ELSE Outcome(sent, "", JoinLines(SubSeq(all_lines, start_index + 1, end_index)))

\* ZoektRuntime.search, up to the formatting of the payload
runtime_search(limit, context_lines, status) ==
    LET params == [url |-> "/search",
                   num |-> Min(Max(1, limit), MAX_SEARCH_LIMIT),
                   ctx |-> Min(Max(0, context_lines), MAX_CONTEXT_LINES)]
    IN  IF status # "ok" THEN Outcome(<<params>>, "HTTPError", <<>>)
        ELSE Outcome(<<params>>, "", <<"results">>)

(***************************************************************************)
(* SpecRuntime: one call of fetch_content or of search.                    *)
(***************************************************************************)
RuntimeCalls ==
    [fn : {"fetch_content"}, start_line : 0..(MaxFileLines + 1),
     end_line : 0..(MaxFileLines + 1), file_lines : 0..MaxFileLines,
     limit : {0}, context_lines : {0}, status : {"ok", "error"}]
    \cup [fn : {"search"}, start_line : {0}, end_line : {0}, file_lines : {0},
          limit : {0, 7, MAX_SEARCH_LIMIT + 1},
          context_lines : (0 - 1)..(MAX_CONTEXT_LINES + 2), status : {"ok", "error"}]

InitRuntime ==
    /\ call \in RuntimeCalls
    /\ ret = <<>>
    /\ fpc = "input"
    /\ ParkedSafety
    /\ ParkedCli
    /\ ParkedRunner

FetchContent ==
    /\ fpc = "input"
    /\ call.fn = "fetch_content"
    /\ ret' = fetch_content(call.start_line, call.end_line, FileLines(call.file_lines),
                            call.status)
    /\ fpc' = "returned"
    /\ UNCHANGED <<call, safetyVars, cliVars, runnerVars>>

Search ==
    /\ fpc = "input"
    /\ call.fn = "search"
    /\ ret' = runtime_search(call.limit, call.context_lines, call.status)
    /\ fpc' = "returned"
    /\ UNCHANGED <<call, safetyVars, cliVars, runnerVars>>

NextRuntime == FetchContent \/ Search

SpecRuntime == InitRuntime /\ [][NextRuntime]_vars

\* C24 (as claimed): fetch_content refuses a window of more than the maximum
\* number of lines with a ZoektRuntimeError that names the maximum, before any
\* request is sent; a window of exactly the maximum is accepted and returns
\* lines start_line..end_line joined by newlines.
C24_FetchWindowBounded ==
    (fpc = "returned" /\ call.fn = "fetch_content"
       /\ call.start_line >= 1 /\ call.end_line >= call.start_line) =>
        LET window == call.end_line - call.start_line + 1
        IN  /\ window > MaxFetchWindowLines =>
                 /\ ret.raised = "ZoektRuntimeError: line window exceeds max"
                 /\ ret.requests = <<>>
            /\ (window = MaxFetchWindowLines /\ call.status = "ok"
                  /\ call.end_line <= call.file_lines) =>
                 /\ ret.raised = ""
                 /\ ret.value = JoinLines(SubSeq(FileLines(call.file_lines),
                                                 call.start_line, call.end_line))

\* C25 (as claimed): search raises ZoektRuntimeError, naming the range
\* 0..MAX_CONTEXT_LINES, when context_lines is above MAX_CONTEXT_LINES, and
\* sends every context_lines within the range unchanged as ctx.
C25_ContextLinesBounded ==
    (fpc = "returned" /\ call.fn = "search") =>
        /\ call.context_lines > MAX_CONTEXT_LINES =>
              /\ ret.raised = "ZoektRuntimeError: context_lines must be between 0 and max"
              /\ ret.requests = <<>>
        /\ call.context_lines \in 0..MAX_CONTEXT_LINES =>
              /\ Len(ret.requests) = 1
              /\ ret.requests[1].ctx = call.context_lines

(***************************************************************************)
(* cross_repo_trace.py: the choice of the repositories and the loop over   *)
(* them.  A search result is reduced to its repository name, "" when the   *)
(* entry has none.                                                         *)
(***************************************************************************)
MaxDiscovery == 3

\* a mutant of extract_ranked_repos: a repository is kept each time it occurs
extract_ranked_repos_keep_duplicates(search_results) ==
    SelectSeq(search_results, LAMBDA repo : repo # "")

\* _extract_ranked_repos: the repositories in order, blanks and repeats left out
extract_ranked_repos(search_results) ==
    LET RECURSIVE Go(_, _)
        Go(repos, rest) ==
            IF rest = <<>> THEN repos
            ELSE IF Head(rest) = "" \/ \E k \in 1..Len(repos) : repos[k] = Head(rest)
            THEN Go(repos, Tail(rest))
            ELSE Go(Append(repos, Head(rest)), Tail(rest))
    IN  Go(<<>>, search_results)

\* the loop over all_repos, entered when the discovery gave too few repositories
RECURSIVE append_all_repos(_, _, _)
append_all_repos(selected_repos, all_repos, normalized_max_repos) ==
    IF all_repos = <<>> THEN selected_repos
    ELSE IF \E k \in 1..Len(selected_repos) : selected_repos[k] = Head(all_repos)
    THEN append_all_repos(selected_repos, Tail(all_repos), normalized_max_repos)
    ELSE IF Len(selected_repos) + 1 >= normalized_max_repos
    THEN Append(selected_repos, Head(all_repos))
    ELSE append_all_repos(Append(selected_repos, Head(all_repos)), Tail(all_repos),
                          normalized_max_repos)

\* main, from max_repos to selected_repos
select_repos(max_repos, discovery_results, all_repos) ==
    LET normalized_max_repos == Max(1, max_repos)
        ranked_repos == extract_ranked_repos(discovery_results)
        selected_repos == SubSeq(ranked_repos, 1, Min(normalized_max_repos, Len(ranked_repos)))
    IN  IF Len(selected_repos) < normalized_max_repos
        THEN [selected |-> append_all_repos(selected_repos, all_repos, normalized_max_repos),
              listed |-> TRUE]
        ELSE [selected |-> selected_repos, listed |-> FALSE]

(***************************************************************************)
(* SpecTrace: one run of main of cross_repo_trace.py.                      *)
(***************************************************************************)
RepoNames == <<"a", "b", "c">>

\* sorted(set(repos)) of list_repos
SortedRepos(S) == SelectSeq(RepoNames, LAMBDA repo : repo \in S)

TraceInputs ==
    [max_repos : (0 - 1)..MaxDiscovery,
     discovery : SeqsUpTo({"", "a", "b"}, MaxDiscovery),
     all_repos : { SortedRepos(S) : S \in SUBSET {"a", "b", "c"} }]

InitTrace ==
    /\ call \in TraceInputs
    /\ ret = <<>>
    /\ fpc = "input"
    /\ ParkedSafety
    /\ ParkedCli
    /\ ParkedRunner

\* the discovery search and, when needed, list_repos
SelectRepos ==
    /\ fpc = "input"
    /\ LET chosen == select_repos(call.max_repos, call.discovery, call.all_repos)
       IN  ret' = [selected |-> chosen.selected, listed |-> chosen.listed,
                   visited |-> <<>>, trace |-> <<>>, errors |-> <<>>, inspected |-> 0 - 1]
    /\ fpc' = "visiting"
    /\ UNCHANGED <<call, safetyVars, cliVars, runnerVars>>

\* one turn of `for repo in selected_repos`: the two searches find something,
\* find nothing, or one of them raises
VisitRepo ==
    /\ fpc = "visiting"
    /\ Len(ret.visited) < Len(ret.selected)
    /\ LET repo == ret.selected[Len(ret.visited) + 1]
       IN  \E found \in {"hits", "nothing", "raised"} :
              ret' = [ret EXCEPT
                        !.visited = Append(@, repo),
                        !.trace = IF found = "hits" THEN Append(@, repo) ELSE @,
                        !.errors = IF found = "raised" THEN Append(@, repo) ELSE @]
    /\ UNCHANGED <<call, fpc, safetyVars, cliVars, runnerVars>>

\* the output is printed after the loop
ReportTrace ==
    /\ fpc = "visiting"
    /\ Len(ret.visited) = Len(ret.selected)
    /\ ret' = [ret EXCEPT !.inspected = Len(ret.selected)]
    /\ fpc' = "returned"
    /\ UNCHANGED <<call, safetyVars, cliVars, runnerVars>>

NextTrace == SelectRepos \/ VisitRepo \/ ReportTrace

SpecTrace == InitTrace /\ [][NextTrace]_vars

\* the entries of seq that are not blank and occur for the first time
FirstOccurrences(seq) ==
    LET keep == { i \in 1..Len(seq) : seq[i] # "" /\ \A j \in 1..(i - 1) : seq[j] # seq[i] }
        RECURSIVE Up(_)
        Up(i) == IF i > Len(seq) THEN <<>>
                 ELSE (IF i \in keep THEN <<seq[i]>> ELSE <<>>) \o Up(i + 1)
    IN  Up(1)

Take(seq, n) == SubSeq(seq, 1, Min(Max(n, 0), Len(seq)))

\* the selection the claim describes for a limit of n repositories
SelectionFor(n) ==
    LET ranked == FirstOccurrences(call.discovery)
        first == Take(ranked, n)
        others == SelectSeq(call.all_repos,
                            LAMBDA repo : \A k \in 1..Len(first) : first[k] # repo)
    IN  IF Len(ranked) < n
        THEN [selected |-> first \o Take(others, n - Len(first)), listed |-> TRUE]
        ELSE [selected |-> first, listed |-> FALSE]

\* the loop visits the selected repositories once each, in order, and the
\* output counts them
VisitsSelection ==
    /\ \A i, j \in 1..Len(ret.selected) : ret.selected[i] = ret.selected[j] => i = j
    /\ ret.visited = SubSeq(ret.selected, 1, Len(ret.visited))
    /\ fpc = "returned" =>
          /\ ret.visited = ret.selected
          /\ ret.inspected = Len(ret.selected)

\* C26 (as claimed): the repositories are the first max_repos distinct ones of
\* the discovery; list_repos is called only when the discovery gives fewer than
\* max_repos, and fills up to max_repos; each is visited once, in order, and
\* inspected_repos is their number, at most max(1, max_repos).
C26_SelectionByMaxRepos ==
    fpc \in {"visiting", "returned"} =>
        /\ ret.selected = SelectionFor(call.max_repos).selected
        /\ ret.listed = SelectionFor(call.max_repos).listed
        /\ Len(ret.selected) <= Max(1, call.max_repos)
        /\ VisitsSelection

\* C26 (amended): the same with n = max(1, max_repos) in the place of max_repos
\* throughout: the first n distinct repositories of the discovery, list_repos
\* only when there are fewer than n, filled up to n.
C26_SelectionByNormalizedMaxRepos ==
    fpc \in {"visiting", "returned"} =>
        /\ ret.selected = SelectionFor(Max(1, call.max_repos)).selected
        /\ ret.listed = SelectionFor(Max(1, call.max_repos)).listed
        /\ Len(ret.selected) <= Max(1, call.max_repos)
        /\ VisitsSelection

\* the discovery repeats a repository and gives too few: list_repos filled the
\* selection, skipping one already selected, and every repository was visited
C26_Witness ==
    /\ fpc = "returned"
    /\ call.max_repos = 3
    /\ Len(FirstOccurrences(call.discovery)) < Len(SelectSeq(call.discovery, LAMBDA r : r # ""))
    /\ ret.listed
    /\ Len(ret.selected) = 3
    /\ \E k \in 1..Len(call.all_repos) : call.all_repos[k] = ret.selected[1]
    /\ ret.inspected = 3
    /\ ret.errors # <<>>

(***************************************************************************)
(* The bootstrap of _build_custom_workflow_command: the child runs the     *)
(* code with runpy.run_path under the module name __custom_workflow__ and  *)
(* looks for run, then main, in the namespace the module body leaves.      *)
(***************************************************************************)
\* the value of an `if` test of the module body while the bootstrap runs it
TestHolds(test) ==
    /\ test.type = "Compare"
    /\ Len(test.kids) = 2
    /\ test.kids[1].type = "Name" /\ test.kids[1].name = "__name__"
    /\ test.kids[2].type = "Constant"
    /\ \/ test.ops = <<"Eq">> /\ test.kids[2].name = "__custom_workflow__"
       \/ test.ops = <<"NotEq">> /\ test.kids[2].name # "__custom_workflow__"

\* the statements the module body executes, in order: an `if` contributes its
\* body when its test holds; the body of a def or a class is not module level
RECURSIVE Executed(_)
Executed(body) ==
    IF body = <<>> THEN <<>>
    ELSE IF Head(body).type = "If"
         THEN (IF TestHolds(Head(body).kids[1]) THEN Executed(Tail(Head(body).kids)) ELSE <<>>)
              \o Executed(Tail(body))
         ELSE <<Head(body)>> \o Executed(Tail(body))

\* callable(namespace.get(n)): a def, an async def or a class bound n
BindsCallable(stmts, n) ==
    HasDef(stmts, {"FunctionDef", "AsyncFunctionDef", "ClassDef"}, n)

\* a relative import of the module body: the script has no parent package
RaisesImportError(stmts) ==
    \E i \in 1..Len(stmts) : stmts[i].type = "ImportFrom" /\ stmts[i].module = <<>>

\* the bootstrap program, by the way the child ends
bootstrap(tree) ==
    LET namespace == Executed(tree.kids)
    IN  IF RaisesImportError(namespace) THEN "ImportError"
        ELSE IF BindsCallable(namespace, "run") THEN "run"
        ELSE IF BindsCallable(namespace, "main") THEN "main"
        ELSE "missing entrypoint: expected run(args) or legacy main()"

(***************************************************************************)
(* SpecCustom: run_custom_workflow_code from the validator to the end of   *)
(* the bootstrap, for one source.                                          *)
(***************************************************************************)
CustomPrograms ==
    Programs
    \cup { Module(extra \o entry) :
             extra \in SeqsUpTo(ExtraStmts, 1),
             entry \in { <<If(NameEqMain, <<DefRun>>)>>,
                         <<FunctionDef("helper", <<DefRun>>)>>,
                         <<DefParseArgs, ClassDef("K", <<DefMain>>), MainGuard>>,
                         <<If(NameEqMain, <<DefParseArgs, DefMain>>)>> } }

InitCustom ==
    /\ call \in CustomPrograms
    /\ ret = <<>>
    /\ fpc = "input"
    /\ ParkedSafety
    /\ ParkedCli
    /\ ParkedRunner

\* validate_custom_workflow_code and `if rejections:`
ValidateCustom ==
    /\ fpc = "input"
    /\ ret' = [rejections |-> validate_custom_workflow_code(call), exit |-> "none"]
    /\ fpc' = IF custom_gate(validate_custom_workflow_code(call)) THEN "accepted" ELSE "rejected"
    /\ UNCHANGED <<call, safetyVars, cliVars, runnerVars>>

\* the child runs the bootstrap on the accepted code
BootstrapRuns ==
    /\ fpc = "accepted"
    /\ ret' = [ret EXCEPT !.exit = bootstrap(call)]
    /\ fpc' = "exited"
    /\ UNCHANGED <<call, safetyVars, cliVars, runnerVars>>

NextCustom == ValidateCustom \/ BootstrapRuns

SpecCustom == InitCustom /\ [][NextCustom]_vars

\* C27: every source the validator accepts is dispatched by the bootstrap to
\* run(args) or to the legacy main(); an accepted program never ends in the
\* bootstrap's "missing entrypoint" exit.
C27_AcceptedIsDispatched ==
    fpc = "exited" => ret.exit # "missing entrypoint: expected run(args) or legacy main()"

\* C28: a program the validator accepts contains no import, of any form and at
\* any depth, whose module lies outside the allowed roots: every such import
\* gives at least one rejection.
C28_AcceptedImportsAllowed ==
    (Validated /\ rejections = <<>>) => \A n \in ImportNames(code) : IsAllowedName(n)

(***************************************************************************)
(* server.py: the shutdown flag and the four tool handlers.                *)
(* The server state is ret = [shutdown_requested, catalog_calls,           *)
(* runner_calls, spawned]; call[i] is the i-th tool call: its tool, its    *)
(* position, whether the signal handler had run when the call began, what  *)
(* the call itself called and spawned, and its response.  A response is    *)
(* [message, success, exit_code]; the two catalog tools return text only   *)
(* and carry NoExitCode.                                                   *)
(***************************************************************************)
NumCalls == 2

INTERNAL_EXIT_CODE == 70

ARGS_EXIT_CODE == 2

NoExitCode == 0 - 1

NoResponse == [message |-> "", success |-> FALSE, exit_code |-> NoExitCode]

Tools == {"search_capabilities", "read_capability", "run_workflow_cli", "run_custom_workflow_code"}

RunTools == {"run_workflow_cli", "run_custom_workflow_code"}

\* a mutant of error_execution_result: the default exit code is that of bad arguments
error_execution_result_exit_2(message) ==
    [message |-> message, success |-> FALSE, exit_code |-> ARGS_EXIT_CODE]

\* _error_execution_result(message) with the default exit_code
error_execution_result(message) ==
    [message |-> message, success |-> FALSE, exit_code |-> INTERNAL_EXIT_CODE]

\* what a handler returns when it finds _shutdown_requested set
shutting_down(tool) ==
    IF tool = "search_capabilities"
    THEN [message |-> "Server is shutting down.", success |-> FALSE, exit_code |-> NoExitCode]
    ELSE IF tool = "read_capability"
    THEN [message |-> "server is shutting down", success |-> FALSE, exit_code |-> NoExitCode]
    ELSE error_execution_result("server is shutting down")

\* signal_handler
signal_handler(server) == [server EXCEPT !.shutdown_requested = TRUE]

IdleCall ==
    [tool |-> "", at |-> "idle", after_signal |-> FALSE, backend_calls |-> 0, children |-> 0,
     response |-> NoResponse]

InitServer ==
    /\ call = [i \in 1..NumCalls |-> IdleCall]
    /\ ret = [shutdown_requested |-> FALSE, catalog_calls |-> 0, runner_calls |-> 0, spawned |-> 0]
    /\ fpc = "serving"
    /\ ParkedSafety
    /\ ParkedCli
    /\ ParkedRunner

\* SIGINT or SIGTERM: the handler runs in the main thread between any two steps
SignalHandler ==
    /\ fpc = "serving"
    /\ ret' = signal_handler(ret)
    /\ UNCHANGED <<call, fpc, safetyVars, cliVars, runnerVars>>

\* a tool call begins: `if self._shutdown_requested:` and its return
BeginCall(i) ==
    /\ fpc = "serving"
    /\ call[i].at = "idle"
    /\ \E tool \in Tools :
          call' = [call EXCEPT ![i] =
                     IF ret.shutdown_requested
                     THEN [@ EXCEPT !.tool = tool, !.after_signal = TRUE, !.at = "returned",
                                    !.response = shutting_down(tool)]
                     ELSE [@ EXCEPT !.tool = tool, !.after_signal = FALSE, !.at = "checked"]]
    /\ UNCHANGED <<ret, fpc, safetyVars, cliVars, runnerVars>>

\* past the check: the request model is built and the catalog or the runner is
\* called; a request the model refuses is answered with exit code 2
CallBackend(i) ==
    /\ fpc = "serving"
    /\ call[i].at = "checked"
    /\ \E valid \in BOOLEAN :
          IF call[i].tool \in RunTools /\ ~valid
          THEN /\ call' = [call EXCEPT ![i].at = "returned",
                                       ![i].response =
                                           [message |-> "args validation failure", success |-> FALSE,
                                            exit_code |-> ARGS_EXIT_CODE]]
               /\ UNCHANGED ret
          ELSE /\ valid
               /\ call' = [call EXCEPT ![i].at = "called", ![i].backend_calls = @ + 1]
               /\ ret' = IF call[i].tool \in RunTools
                         THEN [ret EXCEPT !.runner_calls = @ + 1]
                         ELSE [ret EXCEPT !.catalog_calls = @ + 1]
    /\ UNCHANGED <<fpc, safetyVars, cliVars, runnerVars>>

\* the runner, called by a run tool, reaches create_subprocess_exec
RunnerSpawns(i) ==
    /\ fpc = "serving"
    /\ call[i].at = "called"
    /\ call[i].tool \in RunTools
    /\ call[i].children = 0
    /\ call' = [call EXCEPT ![i].children = 1]
    /\ ret' = [ret EXCEPT !.spawned = @ + 1]
    /\ UNCHANGED <<fpc, safetyVars, cliVars, runnerVars>>

\* the catalog or the runner returns or raises, and the handler returns
CallReturns(i) ==
    /\ fpc = "serving"
    /\ call[i].at = "called"
    /\ \E raised \in BOOLEAN :
          call' = [call EXCEPT ![i].at = "returned",
                               ![i].response =
                                   IF raised /\ call[i].tool \in RunTools
                                   THEN error_execution_result("runner internal exception")
                                   ELSE IF raised
                                   THEN [message |-> "error", success |-> FALSE,
                                         exit_code |-> NoExitCode]
                                   ELSE [message |-> "result", success |-> TRUE,
                                         exit_code |-> IF call[i].tool \in RunTools THEN 0
                                                       ELSE NoExitCode]]
    /\ UNCHANGED <<ret, fpc, safetyVars, cliVars, runnerVars>>

NextServer ==
    \/ SignalHandler
    \/ \E i \in 1..NumCalls : BeginCall(i)
    \/ \E i \in 1..NumCalls : CallBackend(i)
    \/ \E i \in 1..NumCalls : RunnerSpawns(i)
    \/ \E i \in 1..NumCalls : CallReturns(i)

SpecServer == InitServer /\ [][NextServer]_vars

\* the flag is never cleared
ShutdownIsFinal == [][ret.shutdown_requested => ret'.shutdown_requested]_vars

\* a call that began after the signal handler ran has returned the shutting-down
\* response, with exit code 70 and no success for a run tool, and has called
\* neither the catalog nor the runner and spawned nothing
LaterCallsDeclined ==
    \A i \in 1..NumCalls :
        call[i].after_signal =>
            /\ call[i].at = "returned"
            /\ call[i].response.message \in {"Server is shutting down.", "server is shutting down"}
            /\ ~call[i].response.success
            /\ call[i].tool \in RunTools => call[i].response.exit_code = 70
            /\ call[i].backend_calls = 0
            /\ call[i].children = 0

\* C29 (as claimed): once signal_handler has run the flag stays true, every later
\* call of the four tools returns a shutting-down response without calling the
\* catalog or the runner (exit code 70 for the run tools), and no child process
\* is spawned after the shutdown signal.
C29_NoSpawnAfterSignal ==
    /\ ShutdownIsFinal
    /\ []LaterCallsDeclined
    /\ [][ret.shutdown_requested => ret'.spawned = ret.spawned]_vars

\* C29 (amended): once signal_handler has run the flag stays true, and every call
\* of the four tools that begins later returns a shutting-down response without
\* calling the catalog or the runner (exit code 70 for the run tools), so no
\* child process is spawned by a call that begins after the shutdown signal.
C29_NoSpawnByLaterCalls ==
    /\ ShutdownIsFinal
    /\ []LaterCallsDeclined

\* a run tool called after the signal was declined, while a run call that had
\* passed its check before the signal went on to the runner
C29_Witness ==
    /\ ret.shutdown_requested
    /\ \E i, j \in 1..NumCalls :
          /\ call[i].after_signal
          /\ call[i].tool = "run_workflow_cli"
          /\ call[i].response = shutting_down("run_workflow_cli")
          /\ ~call[j].after_signal
          /\ call[j].tool = "run_custom_workflow_code"
          /\ call[j].at = "returned"
          /\ call[j].children = 1

(***************************************************************************)
(* SpecTimeout: the deadline of _execute for a runner built from any       *)
(* configuration.  ServerConfig reads the two settings with int() and the  *)
(* server hands them to ExecutionRunner unchanged.                         *)
(***************************************************************************)
MaxSeconds == 3

\* _normalize_timeout of a runner with the given timeout_default and timeout_max
normalize_timeout_of(timeout_seconds, timeout_default, timeout_max) ==
    IF timeout_seconds <= 0 THEN timeout_default
    ELSE Min(timeout_seconds, timeout_max)

InitTimeout ==
    /\ call \in [timeout_seconds : (0 - 1)..(MaxSeconds + 1),
                 execution_timeout_default : (0 - 1)..MaxSeconds,
                 execution_timeout_max : (0 - 1)..MaxSeconds]
    /\ ret = <<>>
    /\ fpc = "input"
    /\ ParkedSafety
    /\ ParkedCli
    /\ ParkedRunner

\* _execute computes the deadline it hands to asyncio.wait_for
NormalizeTimeout ==
    /\ fpc = "input"
    /\ ret' = [normalized_timeout |->
                 normalize_timeout_of(call.timeout_seconds, call.execution_timeout_default,
                                      call.execution_timeout_max)]
    /\ fpc' = "returned"
    /\ UNCHANGED <<call, safetyVars, cliVars, runnerVars>>

NextTimeout == NormalizeTimeout

SpecTimeout == InitTimeout /\ [][NextTimeout]_vars

\* C30: for every timeout_seconds, zero and negative ones included, and every
\* configuration of EXECUTION_TIMEOUT_DEFAULT and EXECUTION_TIMEOUT_MAX, the
\* deadline applied by _execute is positive and at most timeout_max.
C30_DeadlinePositiveAndBounded ==
    fpc = "returned" =>
        /\ ret.normalized_timeout > 0
        /\ ret.normalized_timeout <= call.execution_timeout_max

====
